---------------------------- MODULE Spec2Model ----------------------------
(***************************************************************************)
(* Vibe-Fusion: attribute resolution and matching engine.                  *)
(*                                                                         *)
(* Strings that the code lower-cases, strips or measures are sequences of  *)
(* one-character strings; attribute names and table names are plain        *)
(* strings.  Similarity scores are percentages (0.8 is 80, 1.0 is 100).    *)
(* Python dicts are functions; where the code depends on a dict's          *)
(* iteration order the order is carried by a sequence.                     *)
(***************************************************************************)
EXTENDS Integers, Sequences, FiniteSets, TLC

VARIABLES
    vibe_mappings,   \* SimilarityMatcher.vibe_mappings: tables in load order
    all_vibe_keys,   \* SimilarityMatcher.all_vibe_keys
    key_to_mapping,  \* SimilarityMatcher.key_to_mapping
    nlp,             \* SimilarityMatcher.nlp is not None
    tfidf_fitted,    \* SimilarityMatcher.tfidf_matrix is not None
    pc,              \* position of the caller
    args,            \* arguments of the call in progress
    ret,             \* value the call returned
    pending_attributes,   \* st.session_state.pending_attributes
    missing_attributes,   \* st.session_state.missing_attributes
    conversation_active,  \* st.session_state.conversation_active
    other_sessions        \* the session state of every session whose script
                          \* is not the one running, by session id

vars == <<vibe_mappings, all_vibe_keys, key_to_mapping, nlp, tfidf_fitted, pc, args, ret,
          pending_attributes, missing_attributes, conversation_active, other_sessions>>

kb_vars == <<vibe_mappings, all_vibe_keys, key_to_mapping, nlp, tfidf_fitted>>

session_vars == <<pending_attributes, missing_attributes, conversation_active,
                  other_sessions>>

(***************************************************************************)
(* str.lower(), str.strip()                                                *)
(***************************************************************************)
\* The upper-case letters and their lower-case forms.
UpperToLower ==
    [A |-> "a", B |-> "b", C |-> "c", D |-> "d", E |-> "e", F |-> "f", G |-> "g",
     H |-> "h", I |-> "i", J |-> "j", K |-> "k", L |-> "l", M |-> "m", N |-> "n",
     O |-> "o", P |-> "p", Q |-> "q", R |-> "r", S |-> "s", T |-> "t", U |-> "u",
     V |-> "v", W |-> "w", X |-> "x", Y |-> "y", Z |-> "z"]

LowerChar(c) == IF c \in DOMAIN UpperToLower THEN UpperToLower[c] ELSE c

Lower(s) == [i \in 1..Len(s) |-> LowerChar(s[i])]

IsSpace(c) == c \in {" ", "\t", "\n"}

RECURSIVE LStrip(_)
LStrip(s) ==
    IF s = <<>> THEN s
    ELSE IF IsSpace(Head(s)) THEN LStrip(Tail(s)) ELSE s

RECURSIVE RStrip(_)
RStrip(s) ==
    IF s = <<>> THEN s
    ELSE IF IsSpace(s[Len(s)]) THEN RStrip(SubSeq(s, 1, Len(s) - 1)) ELSE s

Strip(s) == RStrip(LStrip(s))

(***************************************************************************)
(* Attribute values: None, a string, a number or a list of strings.        *)
(***************************************************************************)
NoneVal == [kind |-> "none", s |-> <<>>, n |-> 0, items |-> <<>>]

StrVal(s) == [kind |-> "str", s |-> s, n |-> 0, items |-> <<>>]

NumVal(n) == [kind |-> "num", s |-> <<>>, n |-> n, items |-> <<>>]

ListVal(items) == [kind |-> "list", s |-> <<>>, n |-> 0, items |-> items]

\* Python truthiness: `if value:`
Truthy(v) ==
    CASE v.kind = "none" -> FALSE
      [] v.kind = "str"  -> v.s # <<>>
      [] v.kind = "num"  -> v.n # 0
      [] v.kind = "list" -> v.items # <<>>

EmptyDict == [k \in {} |-> NoneVal]

\* d.get(k)
Get(d, k) == IF k \in DOMAIN d THEN d[k] ELSE NoneVal

\* The conversation state of a fresh session, which only the chat page
\* changes.
\* The conversation state a new session starts with.
NewSessionState ==
    [pending_attributes |-> EmptyDict, missing_attributes |-> <<>>,
     conversation_active |-> FALSE]

NoSession ==
    /\ pending_attributes = EmptyDict
    /\ missing_attributes = <<>>
    /\ conversation_active = FALSE
    /\ other_sessions = [s \in {} |-> NewSessionState]


(***************************************************************************)
(* Similarity scale                                                        *)
(***************************************************************************)
SimilarityThreshold == 80

ExactScore == 100

TfidfCutoff == 50

(***************************************************************************)
(* Knowledge base: SimilarityMatcher.__init__                              *)
(***************************************************************************)
\* A mapping file is [name, parsable, object, data]: parsable when
\* json.load accepts it, object when its JSON is an object; data is that
\* object as the sequence of its (vibe key, attributes) members in file
\* order.  A table of vibe_mappings is [name, object, data].

\* _load_vibe_mappings
RECURSIVE LoadFiles(_)
LoadFiles(files) ==
    IF files = <<>> THEN <<>>
    ELSE LET f == Head(files)
         IN  IF f.parsable
             THEN <<[name |-> f.name, object |-> f.object, data |-> f.data]>>
                  \o LoadFiles(Tail(files))
             ELSE LoadFiles(Tail(files))

LoadVibeMappings(dir) == IF ~dir.exists THEN <<>> ELSE LoadFiles(dir.files)

\* `for vibe_key, attributes in mapping_data.items()` raises AttributeError,
\* which nothing catches, on a loaded content that is not a JSON object.
PrepareRaises(mappings) == \E i \in 1..Len(mappings) : ~mappings[i].object

\* The double loop of _prepare_vibe_vectors, in iteration order.
RECURSIVE FlattenMappings(_)
FlattenMappings(mappings) ==
    IF mappings = <<>> THEN <<>>
    ELSE LET t == Head(mappings)
         IN  [i \in 1..Len(t.data) |->
                 [key |-> t.data[i].key, mapping_type |-> t.name,
                  attributes |-> t.data[i].attributes]]
             \o FlattenMappings(Tail(mappings))

\* self.all_vibe_keys.append(vibe_key)
AllVibeKeys(mappings) ==
    LET flat == FlattenMappings(mappings)
    IN  [i \in 1..Len(flat) |-> flat[i].key]

\* A mutation of KeyToMapping: the first entry of a key is kept.
KeyToMappingFirstWins(mappings) ==
    LET flat == FlattenMappings(mappings)
        first(k) == CHOOSE i \in 1..Len(flat) :
                        /\ flat[i].key = k
                        /\ \A j \in 1..Len(flat) : flat[j].key = k => i <= j
    IN  [k \in {flat[i].key : i \in 1..Len(flat)} |->
            [mapping_type |-> flat[first(k)].mapping_type,
             attributes |-> flat[first(k)].attributes]]

\* self.key_to_mapping[vibe_key] = (mapping_type, attributes)
KeyToMapping(mappings) ==
    LET flat == FlattenMappings(mappings)
        last(k) == CHOOSE i \in 1..Len(flat) :
                       /\ flat[i].key = k
                       /\ \A j \in 1..Len(flat) : flat[j].key = k => j <= i
    IN  [k \in {flat[i].key : i \in 1..Len(flat)} |->
            [mapping_type |-> flat[last(k)].mapping_type,
             attributes |-> flat[last(k)].attributes]]

\* tfidf_matrix is None when there are no keys or fit_transform raised.
TfidfFitted(keys, fit_ok) == keys # <<>> /\ fit_ok

(***************************************************************************)
(* SimilarityMatcher._find_best_match_for_phrase                           *)
(***************************************************************************)
NoMatch == [found |-> FALSE, vibe_key |-> <<>>, similarity_score |-> 0,
            mapping_type |-> "", attributes |-> EmptyDict, tiers |-> {}]

\* A match; tiers records which tiers were consulted to produce it.
Match(key, score, k2m, tiers) ==
    [found |-> TRUE, vibe_key |-> key, similarity_score |-> score,
     mapping_type |-> k2m[key].mapping_type,
     attributes |-> k2m[key].attributes, tiers |-> tiers]

\* Method 1: the indices of the keys equal to the phrase up to case.
ExactIndices(phrase, keys) ==
    {i \in 1..Len(keys) : Strip(Lower(phrase)) = Lower(keys[i])}

\* Method 2: the loop over all_vibe_keys keeping the first strict maximum.
RECURSIVE DenseScan(_, _, _, _)
DenseScan(keys, dense, i, best) ==
    IF i > Len(keys) THEN best
    ELSE DenseScan(keys, dense, i + 1,
                   IF dense[keys[i]] > best.score
                   THEN [idx |-> i, score |-> dense[keys[i]]]
                   ELSE best)

\* A mutation of TfidfTop: of the keys of maximal score the last one is on
\* top.
TfidfTopLast(keys, fitted, tfidf) ==
    IF ~fitted \/ keys = <<>> THEN [idx |-> 0, score |-> 0]
    ELSE LET top == CHOOSE i \in 1..Len(keys) :
                        /\ \A j \in 1..Len(keys) : tfidf[keys[j]] <= tfidf[keys[i]]
                        /\ \A j \in (i + 1)..Len(keys) : tfidf[keys[j]] < tfidf[keys[i]]
         IN  [idx |-> top, score |-> tfidf[keys[top]]]

\* A mutation of TfidfTop: the lexical tier never answers.
TfidfTopNone(keys, fitted, tfidf) == [idx |-> 0, score |-> 0]

\* calculate_tfidf_similarity(...)[0]: the stable descending sort puts the
\* first key of maximal score on top; idx 0 stands for the empty list.
TfidfTop(keys, fitted, tfidf) ==
    IF ~fitted \/ keys = <<>> THEN [idx |-> 0, score |-> 0]
    ELSE LET top == CHOOSE i \in 1..Len(keys) :
                        /\ \A j \in 1..Len(keys) : tfidf[keys[j]] <= tfidf[keys[i]]
                        /\ \A j \in 1..(i - 1) : tfidf[keys[j]] < tfidf[keys[i]]
         IN  [idx |-> top, score |-> tfidf[keys[top]]]

Min(S) == CHOOSE x \in S : \A y \in S : x <= y

\* A mutation of FindBestMatchForPhrase: the lexical tier is consulted
\* whatever the dense tier found, and the higher score wins.
FindBestMatchBothTiers(phrase, keys, k2m, nlp_on, fitted, dense, tfidf) ==
    LET exact == ExactIndices(phrase, keys)
        d     == IF nlp_on THEN DenseScan(keys, dense, 1, [idx |-> 0, score |-> 0])
                 ELSE [idx |-> 0, score |-> 0]
        t     == TfidfTop(keys, fitted, tfidf)
        tiers == (IF nlp_on THEN {"dense"} ELSE {}) \cup {"lexical"}
    IN  IF exact # {}
        THEN Match(keys[Min(exact)], ExactScore, k2m, {"exact"})
        ELSE IF t.idx # 0 /\ t.score > d.score
             THEN Match(keys[t.idx], t.score, k2m, tiers)
             ELSE IF d.idx # 0 THEN Match(keys[d.idx], d.score, k2m, tiers)
                  ELSE [NoMatch EXCEPT !.tiers = tiers]

\* A mutation of FindBestMatchForPhrase: every phrase is answered with a
\* match that echoes it as a style.
FindBestMatchEcho(phrase, keys, k2m, nlp_on, fitted, dense, tfidf) ==
    [found |-> TRUE, vibe_key |-> phrase, similarity_score |-> ExactScore,
     mapping_type |-> "", attributes |-> [style |-> StrVal(phrase)], tiers |-> {"exact"}]

FindBestMatchForPhrase(phrase, keys, k2m, nlp_on, fitted, dense, tfidf) ==
    LET exact == ExactIndices(phrase, keys)
        d     == IF nlp_on THEN DenseScan(keys, dense, 1, [idx |-> 0, score |-> 0])
                 ELSE [idx |-> 0, score |-> 0]
        t     == TfidfTop(keys, fitted, tfidf)
        dtier == IF nlp_on THEN {"dense"} ELSE {}
    IN  IF exact # {}
        THEN Match(keys[Min(exact)], ExactScore, k2m, {"exact"})
        ELSE IF d.score < TfidfCutoff
             THEN IF t.idx # 0 /\ t.score > d.score
                  THEN Match(keys[t.idx], t.score, k2m, dtier \cup {"lexical"})
                  ELSE IF d.idx # 0
                       THEN Match(keys[d.idx], d.score, k2m, dtier \cup {"lexical"})
                       ELSE [NoMatch EXCEPT !.tiers = dtier \cup {"lexical"}]
             ELSE Match(keys[d.idx], d.score, k2m, dtier)

(***************************************************************************)
(* Bounded universe of the knowledge base                                  *)
(***************************************************************************)
\* Most (vibe key, attributes) members over all mapping files together.
MaxKeys == 3

\* data/vibes/*.json, in os.listdir order
MappingNames == <<"fit_mapping", "color_mapping", "occasion_mapping">>

Boho == <<"b","o","h","o">>

BohoCap == <<"B","o","h","o">>

BohoUpper == <<"B","O","H","O">>

BohoTrail == <<"b","o","h","o"," ">>

BohoTrailUpper == <<"B","O","H","O"," ">>

Chic == <<"c","h","i","c">>

Relaxed == <<"r","e","l","a","x","e","d">>

Flowy == <<"f","l","o","w","y">>

Party == <<"p","a","r","t","y">>

\* Vibe keys: one phrase, a case variant of it and one with trailing space.
KeyUniverse == {Boho, BohoCap, BohoTrail}

PhraseUniverse == {Boho, BohoCap, BohoUpper, BohoTrail, BohoTrailUpper, Chic}

BundleUniverse ==
    { [fit |-> StrVal(Relaxed)],
      [fit |-> ListVal(<<Relaxed, Flowy>>), occasion |-> StrVal(Party)] }

\* Scores the dense and the lexical tier may report for a key.
ScoreUniverse == {0, 90}

SeqsUpTo(S, n) == UNION {[1..k -> S] : k \in 0..n}

\* A JSON object has each member name once.
DistinctKeys(data) ==
    \A i, j \in 1..Len(data) : i # j => data[i].key # data[j].key

FileData(K, B, n) ==
    {d \in SeqsUpTo([key : K, attributes : B], n) : DistinctKeys(d)}

RECURSIVE TotalKeys(_)
TotalKeys(datas) ==
    IF datas = <<>> THEN 0 ELSE Len(Head(datas)) + TotalKeys(Tail(datas))

\* Directories of parsable mapping files holding at most n members.
Directories(K, B, n) ==
    { [exists |-> TRUE,
       files  |-> [i \in 1..Len(ds) |->
                      [name |-> MappingNames[i], parsable |-> TRUE, object |-> TRUE,
                       data |-> ds[i]]]] :
      ds \in {x \in SeqsUpTo(FileData(K, B, n), Len(MappingNames)) : TotalKeys(x) <= n} }

\* SimilarityMatcher.__init__ on directory dir
InitMatcher(dir, nlp_on, fit_ok) ==
    /\ vibe_mappings = LoadVibeMappings(dir)
    /\ all_vibe_keys = AllVibeKeys(LoadVibeMappings(dir))
    /\ key_to_mapping = KeyToMapping(LoadVibeMappings(dir))
    /\ nlp = nlp_on
    /\ tfidf_fitted = TfidfFitted(AllVibeKeys(LoadVibeMappings(dir)), fit_ok)

NoArgs == [op |-> "none"]

NoRet == [op |-> "none"]

(***************************************************************************)
(* SpecMatch: one matcher, calls of _find_best_match_for_phrase            *)
(***************************************************************************)
InitMatch ==
    /\ \E dir \in Directories(KeyUniverse, BundleUniverse, MaxKeys) :
         \E nlp_on, fit_ok \in BOOLEAN : InitMatcher(dir, nlp_on, fit_ok)
    /\ pc = "idle"
    /\ args = NoArgs
    /\ ret = NoRet
    /\ NoSession

\* The scores a tier computes for the keys K; a tier that does not run
\* computes none.
TierScores(runs, K, S) == IF runs THEN [K -> S] ELSE {[k \in K |-> 0]}

KeySet(keys) == {keys[i] : i \in 1..Len(keys)}

MatchPhrase ==
    /\ pc = "idle"
    /\ \E phrase \in PhraseUniverse :
         LET scored == ExactIndices(phrase, all_vibe_keys) = {}
             K == KeySet(all_vibe_keys)
         IN  \E dense \in TierScores(scored /\ nlp, K, ScoreUniverse) :
             \E tfidf \in TierScores(scored /\ tfidf_fitted, K, ScoreUniverse) :
               /\ args' = [op |-> "match", phrase |-> phrase]
               /\ ret' = FindBestMatchForPhrase(phrase, all_vibe_keys, key_to_mapping,
                                                nlp, tfidf_fitted, dense, tfidf)
    /\ pc' = "matched"
    /\ UNCHANGED <<kb_vars, session_vars>>

NextMatch == MatchPhrase

SpecMatch == InitMatch /\ [][NextMatch]_vars

(***************************************************************************)
(* VibeRecommendationSystem._merge_all_attributes                          *)
(***************************************************************************)
\* for key, value in src.items(): if value: merged[key] = value
Override(merged, src) ==
    [k \in (DOMAIN merged) \cup {x \in DOMAIN src : Truthy(src[x])} |->
        IF k \in DOMAIN src /\ Truthy(src[k]) THEN src[k] ELSE merged[k]]

\* The oracle's answer: None, or a dict.
GptNone == [none |-> TRUE, attrs |-> EmptyDict]

GptSome(d) == [none |-> FALSE, attrs |-> d]

\* `if gpt_inferred:` is false for None and for the empty dict
GptTruthy(g) == ~g.none /\ DOMAIN g.attrs # {}

\* A mutation of MergeAllAttributes: the oracle overrides the rule-based map.
MergeInferredOverRules(extracted, rule_based, gpt_inferred, user_prefs) ==
    LET m1 == Override(EmptyDict, extracted)
        m2 == Override(m1, rule_based)
        m3 == IF GptTruthy(gpt_inferred) THEN Override(m2, gpt_inferred.attrs) ELSE m2
    IN  Override(m3, user_prefs)

MergeAllAttributes(extracted, rule_based, gpt_inferred, user_prefs) ==
    LET m1 == Override(EmptyDict, extracted)
        m2 == IF GptTruthy(gpt_inferred) THEN Override(m1, gpt_inferred.attrs) ELSE m1
        m3 == Override(m2, rule_based)
    IN  Override(m3, user_prefs)

(***************************************************************************)
(* VibeRecommendationSystem._check_missing_attributes                      *)
(***************************************************************************)
critical_attributes == <<"category", "size", "budget">>

context_attributes == {"occasion", "season", "style", "fit"}

ContextMarker == "occasion or style"

\* A mutation of CheckMissingAttributes: a key that is present counts as
\* supplied whatever its value.
CheckMissingKeyOnly(attributes) ==
    LET is_missing(attr) == attr \notin DOMAIN attributes
        missing == SelectSeq(critical_attributes, is_missing)
        has_context == \E attr \in context_attributes :
                           attr \in DOMAIN attributes /\ Truthy(attributes[attr])
    IN  IF {"category", "size", "budget"} \subseteq DOMAIN attributes /\ ~has_context
        THEN missing \o <<ContextMarker>>
        ELSE missing

CheckMissingAttributes(attributes) ==
    LET is_missing(attr) == attr \notin DOMAIN attributes \/ ~Truthy(Get(attributes, attr))
        missing == SelectSeq(critical_attributes, is_missing)
        has_context == \E attr \in context_attributes :
                           attr \in DOMAIN attributes /\ Truthy(attributes[attr])
    IN  IF {"category", "size", "budget"} \subseteq DOMAIN attributes /\ ~has_context
        THEN missing \o <<ContextMarker>>
        ELSE missing

(***************************************************************************)
(* VibeRecommendationSystem._generate_follow_up_questions                  *)
(***************************************************************************)
question_templates ==
    [category |-> "What type of clothing are you looking for? Choose from: dress, top, pants, skirt, jacket, shirt, blouse",
     size     |-> "What size do you need? Available sizes: XS, S, M, L, XL, XXL",
     budget   |-> "What's your budget? You can say something like '$50', 'under $100', or '200 dollars'",
     occasion |-> "What's the occasion? For example: casual, formal, work, party, date, wedding",
     season   |-> "What season is this for? (spring, summer, fall, winter)",
     style    |-> "What style are you going for? Options include: casual, formal, chic, bohemian, minimalist, edgy",
     fit      |-> "How would you like it to fit? Choose from: relaxed, tailored, loose, fitted"]

CompoundQuestion ==
    "Tell me about the occasion or style! For example: casual, formal, work, party or casual, formal, chic, bohemian"

GenericQuestion(attr) ==
    "Could you tell me more about the " \o attr \o "? Give me some details!"

FallbackMessage == "I need more information to help you find the perfect clothing item."

\* `'or' in attr` and `'occasion' in attr` on the names that are no template key
HasOr(attr) == attr \in {ContextMarker, "color", "color_or_print", "size or fit"}

HasOccasion(attr) == attr \in {ContextMarker}

\* A mutation of GenerateFollowUpQuestions: compound markers get no question.
RECURSIVE QuestionsTemplatesOnly(_)
QuestionsTemplatesOnly(missing_keys) ==
    IF missing_keys = <<>> THEN <<>>
    ELSE LET attr == Head(missing_keys)
             rest == QuestionsTemplatesOnly(Tail(missing_keys))
         IN  IF attr \in DOMAIN question_templates
             THEN <<question_templates[attr]>> \o rest
             ELSE rest

RECURSIVE GenerateFollowUpQuestions(_)
GenerateFollowUpQuestions(missing_keys) ==
    IF missing_keys = <<>> THEN <<>>
    ELSE LET attr == Head(missing_keys)
             rest == GenerateFollowUpQuestions(Tail(missing_keys))
         IN  IF attr \in DOMAIN question_templates
             THEN <<question_templates[attr]>> \o rest
             ELSE IF HasOr(attr)
                  THEN IF HasOccasion(attr)
                       THEN <<CompoundQuestion>> \o rest
                       ELSE <<GenericQuestion(attr)>> \o rest
                  ELSE rest

(***************************************************************************)
(* SpecFuse: _merge_all_attributes on arbitrary source maps                *)
(***************************************************************************)
\* No knowledge base is involved.
NoMatcher ==
    /\ vibe_mappings = <<>>
    /\ all_vibe_keys = <<>>
    /\ key_to_mapping = EmptyDict
    /\ nlp = FALSE
    /\ tfidf_fitted = FALSE

SizeS == <<"S">>

SizeM == <<"M">>

SizeL == <<"L">>

SizeXL == <<"X","L">>

Cheap == <<"c","h","e","a","p">>

\* All dicts over the keys of choice: each key absent or bound to one of
\* its values.
Dicts(choice) ==
    UNION { {d \in [D -> UNION {choice[k] : k \in D}] : \A k \in D : d[k] \in choice[k]} :
            D \in SUBSET (DOMAIN choice) }

\* Per source, a size and a budget: empty values of every kind and one
\* populated value that names the source.
FuseSources ==
    [extracted    |-> [size   |-> {NoneVal, StrVal(SizeS)},
                       budget |-> {NoneVal, NumVal(50)}],
     gpt_inferred |-> [size   |-> {StrVal(<<>>), StrVal(SizeM)},
                       budget |-> {NumVal(0), NumVal(60)}],
     rule_based   |-> [size   |-> {ListVal(<<>>), StrVal(SizeL)},
                       budget |-> {StrVal(<<>>), StrVal(Cheap)}],
     user_prefs   |-> [size   |-> {NoneVal, StrVal(<<>>), StrVal(SizeXL)},
                       budget |-> {NumVal(0), NumVal(100)}]]

InitFuse ==
    /\ NoMatcher
    /\ pc = "call"
    /\ \E e \in Dicts(FuseSources.extracted), r \in Dicts(FuseSources.rule_based),
          u \in Dicts(FuseSources.user_prefs) :
         \E g \in {GptNone} \cup {GptSome(d) : d \in Dicts(FuseSources.gpt_inferred)} :
           args = [op |-> "merge", extracted |-> e, rule_based |-> r,
                   gpt_inferred |-> g, user_prefs |-> u]
    /\ ret = NoRet
    /\ NoSession

Fuse ==
    /\ pc = "call"
    /\ args.op = "merge"
    /\ ret' = [op |-> "merge",
               merged |-> MergeAllAttributes(args.extracted, args.rule_based,
                                             args.gpt_inferred, args.user_prefs)]
    /\ pc' = "done"
    /\ UNCHANGED <<kb_vars, session_vars, args>>

NextFuse == Fuse

SpecFuse == InitFuse /\ [][NextFuse]_vars

(***************************************************************************)
(* SpecCheck: _check_missing_attributes and _generate_follow_up_questions  *)
(* on arbitrary attribute maps                                             *)
(***************************************************************************)
Dress == <<"d","r","e","s","s">>

CheckChoice ==
    [category |-> {StrVal(<<>>), StrVal(Dress)},
     size     |-> {NoneVal, StrVal(SizeM)},
     budget   |-> {NumVal(0), NumVal(50)},
     occasion |-> {StrVal(<<>>), StrVal(Party)},
     season   |-> {NoneVal},
     style    |-> {ListVal(<<>>)},
     fit      |-> {ListVal(<<Relaxed, Flowy>>)}]

InitCheck ==
    /\ NoMatcher
    /\ pc = "call"
    /\ \E a \in Dicts(CheckChoice) : args = [op |-> "check", attributes |-> a]
    /\ ret = NoRet
    /\ NoSession

Check ==
    /\ pc = "call"
    /\ args.op = "check"
    /\ LET missing == CheckMissingAttributes(args.attributes)
       IN  ret' = [op |-> "check", missing |-> missing,
                   questions |-> GenerateFollowUpQuestions(missing)]
    /\ pc' = "done"
    /\ UNCHANGED <<kb_vars, session_vars, args>>

NextCheck == Check

SpecCheck == InitCheck /\ [][NextCheck]_vars

(***************************************************************************)
(* SimilarityMatcher.find_best_matches                                     *)
(***************************************************************************)
\* NLPAnalyzer.analyze_query: the keys of extracted_attributes in dict order
ExtractedKeyOrder ==
    <<"occasion", "season", "style", "category", "fit", "color", "coverage",
      "size", "budget">>

\* all_candidates: the key phrases, then the extracted values that are
\* non-empty strings, in dict order
RECURSIVE StringValues(_, _)
StringValues(attrs, order) ==
    IF order = <<>> THEN <<>>
    ELSE LET v == Get(attrs, Head(order))
         IN  IF Head(order) \in DOMAIN attrs /\ Truthy(v) /\ v.kind = "str"
             THEN <<v.s>> \o StringValues(attrs, Tail(order))
             ELSE StringValues(attrs, Tail(order))

Candidates(extracted_phrases, individual_attributes) ==
    extracted_phrases \o StringValues(individual_attributes, ExtractedKeyOrder)

\* A mutation of MergeMatch: a later match of equal score replaces the
\* value kept.
MergeMatchLatestOnTies(acc, m) ==
    LET wins(k) == /\ k \in DOMAIN m.attributes
                   /\ \/ k \notin DOMAIN acc.matched_attributes
                      \/ acc.confidence_scores[k] <= m.similarity_score
        keys == (DOMAIN acc.matched_attributes) \cup (DOMAIN m.attributes)
    IN  [matched_attributes |->
            [k \in keys |-> IF wins(k) THEN m.attributes[k]
                            ELSE acc.matched_attributes[k]],
         confidence_scores |->
            [k \in keys |-> IF wins(k) THEN m.similarity_score
                            ELSE acc.confidence_scores[k]]]

\* The body of `if similarity_score >= self.similarity_threshold:`
MergeMatch(acc, m) ==
    LET wins(k) == /\ k \in DOMAIN m.attributes
                   /\ \/ k \notin DOMAIN acc.matched_attributes
                      \/ acc.confidence_scores[k] < m.similarity_score
        keys == (DOMAIN acc.matched_attributes) \cup (DOMAIN m.attributes)
    IN  [matched_attributes |->
            [k \in keys |-> IF wins(k) THEN m.attributes[k]
                            ELSE acc.matched_attributes[k]],
         confidence_scores |->
            [k \in keys |-> IF wins(k) THEN m.similarity_score
                            ELSE acc.confidence_scores[k]]]

\* A mutation of Accepts: a match is accepted when it scores at most the
\* threshold.
AcceptsBelow(similarity_score, similarity_threshold) ==
    similarity_score <= similarity_threshold

\* `similarity_score >= self.similarity_threshold`
Accepts(similarity_score, similarity_threshold) ==
    similarity_score >= similarity_threshold

\* The loop over all_candidates; sc[i] holds the scores the tiers report
\* for candidate i.
RECURSIVE MatchLoop(_, _, _, _, _, _, _, _, _)
MatchLoop(similarity_threshold, cands, i, acc, keys, k2m, nlp_on, fitted, sc) ==
    IF i > Len(cands) THEN acc
    ELSE IF cands[i] = <<>> \/ Len(Strip(cands[i])) < 2
         THEN MatchLoop(similarity_threshold, cands, i + 1, acc, keys, k2m, nlp_on,
                        fitted, sc)
         ELSE LET m == FindBestMatchForPhrase(cands[i], keys, k2m, nlp_on, fitted,
                                              sc[i].dense, sc[i].tfidf)
              IN  MatchLoop(similarity_threshold, cands, i + 1,
                            IF m.found /\ Accepts(m.similarity_score, similarity_threshold)
                            THEN MergeMatch(acc, m) ELSE acc,
                            keys, k2m, nlp_on, fitted, sc)

\* find_best_matches of a matcher built with the given similarity_threshold
FindBestMatchesAt(similarity_threshold, extracted_phrases, individual_attributes, keys, k2m, nlp_on, fitted, sc) ==
    LET acc == MatchLoop(similarity_threshold,
                         Candidates(extracted_phrases, individual_attributes), 1,
                         [matched_attributes |-> EmptyDict, confidence_scores |-> EmptyDict],
                         keys, k2m, nlp_on, fitted, sc)
    IN  [matched_attributes |-> acc.matched_attributes,
         confidence_scores |-> acc.confidence_scores,
         has_high_confidence_matches |->
             \E k \in DOMAIN acc.confidence_scores :
                 Accepts(acc.confidence_scores[k], similarity_threshold)]

\* find_best_matches of the system's matcher, built with the configured
\* similarity_threshold
FindBestMatches(extracted_phrases, individual_attributes, keys, k2m, nlp_on, fitted, sc) ==
    FindBestMatchesAt(SimilarityThreshold, extracted_phrases, individual_attributes,
                      keys, k2m, nlp_on, fitted, sc)

(***************************************************************************)
(* CatalogFilter.filter_products                                           *)
(***************************************************************************)
Top == <<"t","o","p">>

Pants == <<"p","a","n","t","s">>

Skirt == <<"s","k","i","r","t">>

\* A catalog is [empty, columns, found]: found counts the rows that pass
\* the filters.
CatalogColumns ==
    {"category", "price", "available_sizes", "fit", "fabric", "color",
     "sleeve_length", "neckline", "length", "pant_type", "occasion"}

\* `k in attributes and attributes[k]`
Has(attributes, k) == k \in DOMAIN attributes /\ Truthy(attributes[k])

\* value.lower() raises AttributeError unless value is a string
LowerRaises(v) == v.kind # "str"

(***************************************************************************)
(* GPTInference: the attribute tables and _validate_attributes             *)
(***************************************************************************)
\* category_attributes: the attributes each category allows.
category_attributes ==
    (Top :> {"fit", "fabric", "sleeve_length", "color_or_print"}) @@
    (Dress :> {"fit", "fabric", "sleeve_length", "color_or_print", "occasion",
               "neckline"}) @@
    (Skirt :> {"fabric", "color_or_print", "length"}) @@
    (Pants :> {"fit", "fabric", "color_or_print", "pant_type"})

\* valid_values: the values each attribute may take, spelled as in the source.
valid_values ==
    [ category |->
        { <<"t","o","p">>,
          <<"d","r","e","s","s">>,
          <<"s","k","i","r","t">>,
          <<"p","a","n","t","s">> },
      fit |->
        { <<"R","e","l","a","x","e","d">>,
          <<"S","t","r","e","t","c","h"," ","t","o"," ","f","i","t">>,
          <<"B","o","d","y"," ","h","u","g","g","i","n","g">>,
          <<"T","a","i","l","o","r","e","d">>,
          <<"O","v","e","r","s","i","z","e","d">>,
          <<"F","l","o","w","y">>,
          <<"B","o","d","y","c","o","n">>,
          <<"S","l","i","m">>,
          <<"S","l","e","e","k"," ","a","n","d"," ","s","t","r","a","i","g","h","t">> },
      fabric |->
        { <<"L","i","n","e","n">>,
          <<"S","i","l","k">>,
          <<"C","o","t","t","o","n">>,
          <<"R","a","y","o","n">>,
          <<"S","a","t","i","n">>,
          <<"M","o","d","a","l"," ","j","e","r","s","e","y">>,
          <<"C","r","e","p","e">>,
          <<"T","e","n","c","e","l">>,
          <<"C","h","a","m","b","r","a","y">>,
          <<"V","e","l","v","e","t">>,
          <<"C","h","i","f","f","o","n">>,
          <<"D","e","n","i","m">>,
          <<"W","o","o","l","-","b","l","e","n","d">>,
          <<"S","e","q","u","i","n","e","d"," ","v","e","l","v","e","t">>,
          <<"T","u","l","l","e">>,
          <<"O","r","g","a","n","i","c"," ","c","o","t","t","o","n">>,
          <<"V","i","s","c","o","s","e">>,
          <<"C","o","t","t","o","n"," ","p","o","p","l","i","n">>,
          <<"L","i","n","e","n"," ","b","l","e","n","d">>,
          <<"C","o","t","t","o","n"," ","g","a","u","z","e">>,
          <<"R","i","b","b","e","d"," ","j","e","r","s","e","y">>,
          <<"L","a","c","e"," ","o","v","e","r","l","a","y">>,
          <<"T","e","n","c","e","l"," ","t","w","i","l","l">> },
      sleeve_length |->
        { <<"S","l","e","e","v","e","l","e","s","s">>,
          <<"S","p","a","g","h","e","t","t","i"," ","s","t","r","a","p","s">>,
          <<"S","t","r","a","p","s">>,
          <<"S","h","o","r","t"," ","s","l","e","e","v","e","s">>,
          <<"S","h","o","r","t"," ","f","l","u","t","t","e","r"," ","s","l","e","e","v","e","s">>,
          <<"C","a","p"," ","s","l","e","e","v","e","s">>,
          <<"Q","u","a","r","t","e","r"," ","s","l","e","e","v","e","s">>,
          <<"L","o","n","g"," ","s","l","e","e","v","e","s">>,
          <<"F","u","l","l"," ","s","l","e","e","v","e","s">>,
          <<"C","r","o","p","p","e","d">>,
          <<"B","i","s","h","o","p"," ","s","l","e","e","v","e","s">>,
          <<"B","a","l","l","o","o","n"," ","s","l","e","e","v","e","s">>,
          <<"B","e","l","l"," ","s","l","e","e","v","e","s">>,
          <<"H","a","l","t","e","r">>,
          <<"T","u","b","e">>,
          <<"O","n","e","-","s","h","o","u","l","d","e","r">> },
      neckline |->
        { <<"V"," ","n","e","c","k">>,
          <<"S","w","e","e","t","h","e","a","r","t">>,
          <<"S","q","u","a","r","e"," ","n","e","c","k">>,
          <<"B","o","a","t"," ","n","e","c","k">>,
          <<"T","u","b","e","t","o","p">>,
          <<"H","a","l","t","e","r">>,
          <<"C","o","w","l"," ","n","e","c","k">>,
          <<"C","o","l","l","a","r">>,
          <<"O","n","e","-","s","h","o","u","l","d","e","r">>,
          <<"P","o","l","o"," ","c","o","l","l","a","r">>,
          <<"I","l","l","u","s","i","o","n"," ","b","a","t","e","a","u">>,
          <<"R","o","u","n","d"," ","n","e","c","k">> },
      length |->
        { <<"M","i","n","i">>,
          <<"S","h","o","r","t">>,
          <<"M","i","d","i">>,
          <<"M","a","x","i">> },
      pant_type |->
        { <<"W","i","d","e","-","l","e","g","g","e","d">>,
          <<"A","n","k","l","e"," ","l","e","n","g","t","h">>,
          <<"F","l","a","r","e","d">>,
          <<"W","i","d","e"," ","h","e","m">>,
          <<"S","t","r","a","i","g","h","t"," ","a","n","k","l","e">>,
          <<"M","i","d","-","r","i","s","e">>,
          <<"L","o","w","-","r","i","s","e">> },
      occasion |->
        { <<"P","a","r","t","y">>,
          <<"V","a","c","a","t","i","o","n">>,
          <<"E","v","e","r","y","d","a","y">>,
          <<"E","v","e","n","i","n","g">>,
          <<"W","o","r","k">>,
          <<"V","o","c","a","t","i","o","n">> } ]

\* attr.lower() on the keys a response carries.
AttrUpperToLower == [Category |-> "category", Fit |-> "fit", Length |-> "length"]

AttrLower(attr) == IF attr \in DOMAIN AttrUpperToLower THEN AttrUpperToLower[attr] ELSE attr

\* The items of a list value that are in a table, in their order.
ValidatedList(items, table) == SelectSeq(items, LAMBDA item : item \in table)

\* `value in self.valid_values[attr_lower]` for a value that is not a list
InTable(value, table) == value.kind = "str" /\ value.s \in table

\* _validate_attributes: raised when attributes.get('category', '').lower()
\* raises AttributeError, else the validated dict.
ValidateAttributes(attributes) ==
    LET given == IF "category" \in DOMAIN attributes THEN attributes["category"]
                 ELSE StrVal(<<>>)
    IN  IF LowerRaises(given) THEN [raised |-> TRUE, validated |-> EmptyDict]
        ELSE
          LET category == Lower(given.s)
              valid_attrs == IF category \in DOMAIN category_attributes
                             THEN category_attributes[category] ELSE {}
              Allowed(attr) == AttrLower(attr) = "category" \/ AttrLower(attr) \in valid_attrs
              Tabled(attr) == AttrLower(attr) \in DOMAIN valid_values
              Kept(attr) ==
                  /\ Allowed(attr)
                  /\ Tabled(attr) =>
                       IF attributes[attr].kind = "list"
                       THEN ValidatedList(attributes[attr].items,
                                          valid_values[AttrLower(attr)]) # <<>>
                       ELSE InTable(attributes[attr], valid_values[AttrLower(attr)])
          IN  [raised |-> FALSE,
               validated |->
                 [attr \in {a \in DOMAIN attributes : Kept(a)} |->
                    IF Tabled(attr) /\ attributes[attr].kind = "list"
                    THEN ListVal(ValidatedList(attributes[attr].items,
                                               valid_values[AttrLower(attr)]))
                    ELSE attributes[attr]]]

(***************************************************************************)
(* GPTInference.infer_attributes                                           *)
(***************************************************************************)
\* oracle is [available, response].  response.kind is "raises" when the call
\* raises (a timeout included), "malformed" when the content is not JSON,
\* "not_object" when the JSON is not an object, "object" when it is the
\* dict response.attributes.
Response(kind, attributes) == [kind |-> kind, attributes |-> attributes]

InferAttributes(oracle) ==
    IF ~oracle.available THEN GptNone
    ELSE IF oracle.response.kind # "object" THEN GptNone
    ELSE LET validated_attributes == ValidateAttributes(oracle.response.attributes)
         IN  IF validated_attributes.raised THEN GptNone
             ELSE GptSome(validated_attributes.validated)

Digits == {"0", "1", "2", "3", "4", "5", "6", "7", "8", "9"}

\* float(value) succeeds
ParsesAsNumber(v) ==
    \/ v.kind = "num"
    \/ v.kind = "str" /\ v.s # <<>> /\ \A i \in 1..Len(v.s) : v.s[i] \in Digits

\* Whether filter_products raises on a non-empty catalog.
FilterRaises(attributes, catalog) ==
    LET cat == Get(attributes, "category")
        cols == catalog.columns
        current_category ==
            IF "category" \in DOMAIN attributes /\ cat.kind = "str"
            THEN Lower(cat.s) ELSE <<>>
        scalar(k) == LowerRaises(attributes[k])
        listOrScalar(k) == attributes[k].kind # "list" /\ LowerRaises(attributes[k])
    IN  \/ Has(attributes, "category") /\ (LowerRaises(cat) \/ "category" \notin cols)
        \/ Has(attributes, "budget") /\ ParsesAsNumber(attributes["budget"])
             /\ "price" \notin cols
        \/ Has(attributes, "size") /\ "available_sizes" \notin cols
        \/ "category" \in DOMAIN attributes /\ LowerRaises(cat)
        \/ Has(attributes, "fit") /\ current_category \in {Top, Dress, Pants}
             /\ "fit" \in cols /\ scalar("fit")
        \/ Has(attributes, "fabric") /\ "fabric" \in cols /\ listOrScalar("fabric")
        \/ Has(attributes, "color_or_print")
             /\ ("color" \notin cols \/ listOrScalar("color_or_print"))
        \/ Has(attributes, "sleeve_length") /\ current_category \in {Top, Dress}
             /\ "sleeve_length" \in cols /\ scalar("sleeve_length")
        \/ Has(attributes, "neckline") /\ current_category = Dress
             /\ "neckline" \in cols /\ scalar("neckline")
        \/ Has(attributes, "length") /\ current_category = Skirt
             /\ "length" \in cols /\ listOrScalar("length")
        \/ Has(attributes, "pant_type") /\ current_category = Pants
             /\ "pant_type" \in cols /\ scalar("pant_type")
        \/ Has(attributes, "occasion") /\ current_category = Dress
             /\ "occasion" \in cols /\ scalar("occasion")

FilterProducts(attributes, catalog) ==
    IF catalog.empty THEN [raised |-> FALSE, products |-> 0]
    ELSE IF FilterRaises(attributes, catalog) THEN [raised |-> TRUE, products |-> 0]
    ELSE [raised |-> FALSE, products |-> catalog.found]

(***************************************************************************)
(* NLGGenerator.generate_suggestion                                        *)
(***************************************************************************)
EmptyResultMessage ==
    "I couldn't find any items that match your criteria exactly. Try adjusting your preferences."

\* _extract_context: attributes['occasion'].lower()
ExtractContextRaises(attributes) ==
    "occasion" \in DOMAIN attributes /\ LowerRaises(attributes["occasion"])

\* _get_price_context: `budget and price <= budget * 0.8`
PriceContextRaises(attributes) ==
    LET budget == Get(attributes, "budget")
    IN  Truthy(budget) /\ budget.kind \in {"str", "list"}

GenerateSuggestion(products, attributes) ==
    IF products = 0 THEN [raised |-> FALSE, text |-> EmptyResultMessage]
    ELSE IF ExtractContextRaises(attributes) THEN [raised |-> TRUE, text |-> ""]
    ELSE IF products = 1
         THEN IF PriceContextRaises(attributes) THEN [raised |-> TRUE, text |-> ""]
              ELSE [raised |-> FALSE, text |-> "single_product"]
         ELSE [raised |-> FALSE, text |-> "multiple_products"]

(***************************************************************************)
(* VibeRecommendationSystem.get_recommendations                            *)
(***************************************************************************)
\* The call runs its steps in order on what its collaborators answer:
\* analyze_query (extracted, key_phrases), the tiers' scores per candidate,
\* the inference oracle, the caller's user_preferences, the loaded catalog.
\* The result is the returned dict; raised tells that an exception left the
\* call instead, called lists the collaborators that were invoked.

\* A mutation of UseGpt: the count of rule-based attributes is not tested.
UseGptOnLowConfidenceOnly(has_high_confidence, rule_based_attributes) ==
    ~has_high_confidence

\* A mutation of UseGpt: the oracle is asked in every turn.
UseGptAlways(has_high_confidence, rule_based_attributes) == TRUE

\* `if not has_high_confidence or len(rule_based_attributes) < 3:`
UseGpt(has_high_confidence, rule_based_attributes) ==
    ~has_high_confidence \/ Cardinality(DOMAIN rule_based_attributes) < 3

\* Steps 3 to 5: inference, fusion, completeness check.
ResolveAttributes(extracted, user_preferences, similarity_result, oracle) ==
    LET rule_based_attributes == similarity_result.matched_attributes
        has_high_confidence == similarity_result.has_high_confidence_matches
        use_gpt == UseGpt(has_high_confidence, rule_based_attributes)
        gpt_attributes == IF use_gpt THEN InferAttributes(oracle) ELSE GptSome(EmptyDict)
        final_attributes == MergeAllAttributes(extracted, rule_based_attributes,
                                               gpt_attributes, user_preferences)
    IN  [raised |-> FALSE, success |-> FALSE, message |-> "",
         missing_attributes |-> CheckMissingAttributes(final_attributes),
         suggested_questions |-> <<>>,
         final_attributes |-> final_attributes,
         recommendation |-> "", products |-> 0,
         rule_based_attributes |-> rule_based_attributes,
         has_high_confidence |-> has_high_confidence,
         gpt_attributes |-> gpt_attributes,
         called |-> IF use_gpt THEN {"oracle"} ELSE {}]

\* The return for missing attributes, else steps 6 and 7: filter, render.
Respond(resolved, catalog) ==
    LET follow_up_questions == GenerateFollowUpQuestions(resolved.missing_attributes)
        filtered == FilterProducts(resolved.final_attributes, catalog)
        suggestion == GenerateSuggestion(filtered.products, resolved.final_attributes)
    IN  IF resolved.missing_attributes # <<>>
        THEN [resolved EXCEPT !.message = IF follow_up_questions # <<>>
                                          THEN follow_up_questions[1] ELSE FallbackMessage,
                              !.suggested_questions = follow_up_questions]
        ELSE IF filtered.raised
        THEN [resolved EXCEPT !.raised = TRUE, !.called = @ \cup {"filter"}]
        ELSE IF suggestion.raised
        THEN [resolved EXCEPT !.raised = TRUE, !.called = @ \cup {"filter", "render"}]
        ELSE [resolved EXCEPT !.success = TRUE, !.recommendation = suggestion.text,
                              !.products = filtered.products,
                              !.called = @ \cup {"filter", "render"}]

\* What the caller shows: interactive_session prints the recommendation, or
\* the message with the questions, or the text of the exception.
Display(result) ==
    IF result.raised THEN "error"
    ELSE IF result.success THEN "recommendation" ELSE "clarification"

(***************************************************************************)
(* Spec: a session of get_recommendations calls on one loaded system       *)
(***************************************************************************)
\* Most members over all mapping files together.
MaxPipelineKeys == 1

PipelineKeys == {Party}

PipelineBundles ==
    { [fit |-> StrVal(Relaxed)],
      [category |-> StrVal(Dress), fit |-> ListVal(<<Relaxed, Flowy>>),
       occasion |-> StrVal(Party)],
      [budget |-> StrVal(Cheap), size |-> StrVal(SizeM), style |-> StrVal(Chic)] }

PipelineScores == {0, 60, 90}

\* analyze_query returns every key, None where nothing was extracted.
ExtractedUniverse ==
    LET found == [occasion |-> StrVal(Party), category |-> StrVal(Dress),
                  size |-> StrVal(SizeM), budget |-> NumVal(50)]
    IN  { [k \in KeySet(ExtractedKeyOrder) |-> IF k \in D THEN found[k] ELSE NoneVal] :
          D \in SUBSET (DOMAIN found) }

PhrasesUniverse == {<<>>, <<Boho>>}

FitRelaxed == <<"R","e","l","a","x","e","d">>

\* No API key; a call that raises or times out; content that is not JSON;
\* a JSON object.
OracleUniverse ==
    { [available |-> FALSE, response |-> Response("raises", EmptyDict)],
      [available |-> TRUE, response |-> Response("raises", EmptyDict)],
      [available |-> TRUE, response |-> Response("malformed", EmptyDict)],
      [available |-> TRUE,
       response |-> Response("object", [category |-> StrVal(Top),
                                        fit |-> StrVal(FitRelaxed)])] }

PreferencesUniverse ==
    { EmptyDict,
      [budget |-> StrVal(Cheap)],
      [size |-> StrVal(SizeL), budget |-> NumVal(100), category |-> StrVal(<<>>)] }

CatalogUniverse ==
    {[empty |-> TRUE, columns |-> {}, found |-> 0]} \cup
    {[empty |-> FALSE, columns |-> CatalogColumns, found |-> n] : n \in 0..2}

\* The scores for candidate c: none when c is skipped or matched exactly,
\* and the lexical tier runs only below the cutoff.
CandidateScores(c, keys, nlp_on, fitted) ==
    LET scored == /\ c # <<>> /\ Len(Strip(c)) >= 2
                  /\ ExactIndices(c, keys) = {}
        K == KeySet(keys)
        below(d) == \A k \in DOMAIN d : d[k] < TfidfCutoff
    IN  UNION { { [dense |-> d, tfidf |-> t] :
                  t \in TierScores(scored /\ fitted /\ below(d), K, PipelineScores) } :
                d \in TierScores(scored /\ nlp_on, K, PipelineScores) }

RECURSIVE ScoreChoices(_, _, _, _)
ScoreChoices(cands, keys, nlp_on, fitted) ==
    IF cands = <<>> THEN {<<>>}
    ELSE { <<h>> \o t : h \in CandidateScores(Head(cands), keys, nlp_on, fitted),
                        t \in ScoreChoices(Tail(cands), keys, nlp_on, fitted) }

\* The oracle answers only when it is asked, the catalog is read only when
\* nothing is missing.
OracleChoices(similarity_result) ==
    IF UseGpt(similarity_result.has_high_confidence_matches,
              similarity_result.matched_attributes)
    THEN OracleUniverse
    ELSE {[available |-> FALSE, response |-> Response("raises", EmptyDict)]}

CatalogChoices(resolved) ==
    IF resolved.missing_attributes = <<>> THEN CatalogUniverse
    ELSE {[empty |-> TRUE, columns |-> {}, found |-> 0]}

Init ==
    /\ \E dir \in Directories(PipelineKeys, PipelineBundles, MaxPipelineKeys)
                   \cup {[exists |-> FALSE, files |-> <<>>]} :
         \E nlp_on \in BOOLEAN : InitMatcher(dir, nlp_on, TRUE)
    /\ pc = "prompt"
    /\ args = NoArgs
    /\ ret = NoRet
    /\ NoSession

\* The user asks; get_recommendations answers or fails.
Ask ==
    /\ pc = "prompt"
    /\ \E e \in ExtractedUniverse, ph \in PhrasesUniverse, u \in PreferencesUniverse :
         \E sc \in ScoreChoices(Candidates(ph, e), all_vibe_keys, nlp, tfidf_fitted) :
           LET similarity_result ==
                   FindBestMatches(ph, e, all_vibe_keys, key_to_mapping,
                                   nlp, tfidf_fitted, sc)
           IN  \E o \in OracleChoices(similarity_result) :
                 LET resolved == ResolveAttributes(e, u, similarity_result, o)
                 IN  \E c \in CatalogChoices(resolved) :
                       LET result == Respond(resolved, c)
                       IN  /\ args' = [op |-> "get_recommendations", extracted |-> e,
                                       user_preferences |-> u, oracle |-> o]
                           /\ ret' = [op |-> "get_recommendations", result |-> result,
                                      display |-> Display(result)]
    /\ pc' = "answered"
    /\ UNCHANGED <<kb_vars, session_vars>>

\* A mutation of Prompt: the mapping files are read again between two
\* turns and found gone.
PromptWithReload ==
    /\ pc = "answered"
    /\ pc' = "prompt"
    /\ args' = NoArgs
    /\ ret' = NoRet
    /\ vibe_mappings' = <<>>
    /\ all_vibe_keys' = <<>>
    /\ key_to_mapping' = EmptyDict
    /\ tfidf_fitted' = FALSE
    /\ UNCHANGED <<nlp, session_vars>>

\* The session loop returns to its prompt.
Prompt ==
    /\ pc = "answered"
    /\ pc' = "prompt"
    /\ args' = NoArgs
    /\ ret' = NoRet
    /\ UNCHANGED <<kb_vars, session_vars>>

Next == Ask \/ Prompt

Spec == Init /\ [][Next]_vars

(***************************************************************************)
(* SpecSession: the chat page of streamlit_app.py on one loaded system     *)
(***************************************************************************)
\* dict.update: d.update(e)
Update(d, e) ==
    [k \in (DOMAIN d) \cup (DOMAIN e) |-> IF k \in DOMAIN e THEN e[k] ELSE d[k]]

\* A mutation of UpdateExtracted: every extracted entry is written, empty
\* or not.
UpdateExtractedAll(pending, extracted) == Update(pending, extracted)

\* The loop over the attributes extracted from the current input alone:
\* `if value and value not in [None, "", []]: pending_attributes[key] = value`
UpdateExtracted(pending, extracted) ==
    [k \in (DOMAIN pending) \cup {x \in DOMAIN extracted : Truthy(extracted[x])} |->
        IF k \in DOMAIN extracted /\ Truthy(extracted[k]) THEN extracted[k]
        ELSE pending[k]]

\* The vibes directory is missing, or holds one file with one vibe.
SessionDirectories ==
    { [exists |-> FALSE, files |-> <<>>],
      [exists |-> TRUE,
       files |-> <<[name |-> MappingNames[1], parsable |-> TRUE, object |-> TRUE,
                    data |-> <<[key |-> Party,
                                attributes |-> [category |-> StrVal(Dress),
                                                fit |-> ListVal(<<Relaxed, Flowy>>),
                                                occasion |-> StrVal(Party)]]>>]>>] }

InitSession ==
    /\ \E dir \in SessionDirectories : InitMatcher(dir, FALSE, TRUE)
    /\ pc = "page"
    /\ args = NoArgs
    /\ ret = NoRet
    /\ NoSession

\* What the extractor finds in an utterance of the session.
SessionExtracted ==
    LET found == [category |-> StrVal(Dress), size |-> StrVal(SizeM),
                  budget |-> NumVal(50)]
    IN  { [k \in KeySet(ExtractedKeyOrder) |-> IF k \in D THEN found[k] ELSE NoneVal] :
          D \in SUBSET (DOMAIN found) }

SessionPhrases == {<<>>, <<Party>>}

\* The oracle is reachable; it answers or fails.
SessionOracles ==
    { [available |-> TRUE, response |-> Response("raises", EmptyDict)],
      [available |-> TRUE,
       response |-> Response("object", [category |-> StrVal(Dress),
                                        fit |-> StrVal(FitRelaxed)])] }

\* The loaded catalog, with one row passing the filters.
SessionCatalog == [empty |-> FALSE, columns |-> CatalogColumns, found |-> 1]

\* What the page reads of a returned dict.
Outcome(result) ==
    [raised |-> result.raised, success |-> result.success,
     missing_attributes |-> result.missing_attributes,
     final_attributes |-> result.final_attributes]

\* What a call of get_recommendations can give on this system, for what
\* analyze_query extracts from the query and the preferences passed.
Turns(extracted, user_preferences) ==
    UNION { UNION { { Outcome(Respond(ResolveAttributes(extracted, user_preferences,
                                                        sim, o),
                                      SessionCatalog)) :
                      o \in IF UseGpt(sim.has_high_confidence_matches,
                                      sim.matched_attributes)
                            THEN SessionOracles ELSE {[available |-> TRUE, response |-> Response("raises", EmptyDict)]} } :
                    sim \in { FindBestMatches(ph, extracted, all_vibe_keys, key_to_mapping,
                                              nlp, tfidf_fitted, sc) :
                              sc \in ScoreChoices(Candidates(ph, extracted), all_vibe_keys,
                                                  nlp, tfidf_fitted) } } :
            ph \in SessionPhrases }

\* A mutation of ProcessUserInputOver: the call passes user_prefs alone, not
\* merged with the pending attributes.
ProcessUserInputForgetsPending(E, user_prefs) ==
    /\ pc = "page"
    /\ \E extracted \in E :
       \E current \in IF pending_attributes = EmptyDict THEN {extracted} ELSE E :
         \E result \in Turns(extracted, user_prefs) :
               /\ args' = [op |-> "process_user_input", user_prefs |-> user_prefs,
                           current |-> current]
               /\ ret' = [op |-> "process_user_input", result |-> result,
                          display |-> Display(result)]
               /\ IF result.raised
                  THEN UNCHANGED session_vars
                  ELSE IF result.success
                  THEN /\ conversation_active' = FALSE
                       /\ pending_attributes' = EmptyDict
                       /\ missing_attributes' = <<>>
                  ELSE /\ conversation_active' = TRUE
                       /\ missing_attributes' = result.missing_attributes
                       /\ pending_attributes' =
                              UpdateExtracted(Update(pending_attributes,
                                                     result.final_attributes), current)
    /\ UNCHANGED <<kb_vars, pc, other_sessions>>

\* process_user_input(user_input, user_prefs) for utterances whose analyses
\* are in E: extracted is the analysis of the combined query, current that
\* of the input alone; the two are the same text when nothing is pending.
ProcessUserInputOver(E, user_prefs) ==
    /\ pc = "page"
    /\ \E extracted \in E :
       \E current \in IF pending_attributes = EmptyDict THEN {extracted} ELSE E :
         LET merged_prefs == Update(user_prefs, pending_attributes)
         IN  \E result \in Turns(extracted, merged_prefs) :
               /\ args' = [op |-> "process_user_input", user_prefs |-> user_prefs,
                           current |-> current]
               /\ ret' = [op |-> "process_user_input", result |-> result,
                          display |-> Display(result)]
               /\ IF result.raised
                  THEN UNCHANGED session_vars
                  ELSE IF result.success
                  THEN /\ conversation_active' = FALSE
                       /\ pending_attributes' = EmptyDict
                       /\ missing_attributes' = <<>>
                  ELSE /\ conversation_active' = TRUE
                       /\ missing_attributes' = result.missing_attributes
                       /\ pending_attributes' =
                              UpdateExtracted(Update(pending_attributes,
                                                     result.final_attributes), current)
    /\ UNCHANGED <<kb_vars, pc, other_sessions>>

ProcessUserInput(user_prefs) == ProcessUserInputOver(SessionExtracted, user_prefs)

\* main: the form sends the input with no preferences.
Send == ProcessUserInput(EmptyDict)

\* A mutation of NewRequest: the stored missing keys survive the reset.
NewRequestKeepsMissing ==
    /\ pc = "page"
    /\ pending_attributes' = EmptyDict
    /\ conversation_active' = FALSE
    /\ args' = [op |-> "new_request"]
    /\ ret' = NoRet
    /\ UNCHANGED <<kb_vars, pc, other_sessions, missing_attributes>>

\* main: the "New Request" button.
NewRequest ==
    /\ pc = "page"
    /\ pending_attributes' = EmptyDict
    /\ missing_attributes' = <<>>
    /\ conversation_active' = FALSE
    /\ args' = [op |-> "new_request"]
    /\ ret' = NoRet
    /\ UNCHANGED <<kb_vars, pc, other_sessions>>

\* main: the "Get Final Recommendations" button, which calls
\* get_final_recommendations(pending_attributes, {}) when something is
\* pending; E holds the analyses of the query built from the pending
\* attributes.
GetFinalRecommendationsOver(E) ==
    /\ pc = "page"
    /\ pending_attributes # EmptyDict
    /\ \E extracted \in E :
       \E result \in Turns(extracted, EmptyDict) :
         /\ args' = [op |-> "get_final_recommendations", user_prefs |-> EmptyDict,
                     current |-> extracted]
         /\ ret' = [op |-> "get_final_recommendations", result |-> result,
                    display |-> IF result.raised \/ ~result.success THEN "error"
                                ELSE "recommendation"]
         /\ IF ~result.raised /\ result.success
            THEN /\ conversation_active' = FALSE
                 /\ pending_attributes' = EmptyDict
                 /\ missing_attributes' = <<>>
            ELSE UNCHANGED session_vars
    /\ UNCHANGED <<kb_vars, pc, other_sessions>>

GetFinalRecommendations == GetFinalRecommendationsOver(SessionExtracted)

NextSession == Send \/ NewRequest \/ GetFinalRecommendations

SpecSession == InitSession /\ [][NextSession]_vars

(***************************************************************************)
(* SpecFollowUp: the same page, process_user_input called with explicit    *)
(* user preferences                                                        *)
(***************************************************************************)
FollowUpPreferences == {[size |-> StrVal(SizeL)], [size |-> StrVal(SizeL), budget |-> NumVal(100)]}

SendWithPreferences == \E user_prefs \in FollowUpPreferences : ProcessUserInput(user_prefs)

NextFollowUp == SendWithPreferences \/ NewRequest \/ GetFinalRecommendations

SpecFollowUp == InitSession /\ [][NextFollowUp]_vars

(***************************************************************************)
(* SpecRetain: turns whose utterances name one category or another         *)
(***************************************************************************)
\* What the extractor finds in these utterances: a category, a budget,
\* both or nothing.
RetainExtracted ==
    { [k \in KeySet(ExtractedKeyOrder) |->
          IF k = "category" THEN c ELSE IF k = "budget" THEN b ELSE NoneVal] :
      c \in {NoneVal, StrVal(Dress), StrVal(Top)}, b \in {NoneVal, NumVal(50)} }

SendRetaining == ProcessUserInputOver(RetainExtracted, EmptyDict)

NextRetain == SendRetaining \/ NewRequest

SpecRetain == InitSession /\ [][NextRetain]_vars

(***************************************************************************)
(* One call of infer_attributes (SpecInfer)                                *)
(***************************************************************************)
Mini == <<"M","i","n","i">>

Red == <<"r","e","d">>

DressCap == <<"D","r","e","s","s">>

\* What a response may bind each key to: for the category a listed name, a
\* capitalised one, an unlisted one, a list and null; for fit a listed
\* value, an unlisted spelling, lists of both and null; a free-form colour;
\* a length, which only a skirt allows; a style, which no category allows;
\* a capitalised key.
ResponseValues ==
    [category       |-> {StrVal(Top), StrVal(Dress), StrVal(Skirt), StrVal(DressCap),
                         StrVal(Boho), ListVal(<<Dress>>), NoneVal},
     fit            |-> {StrVal(FitRelaxed), StrVal(Relaxed),
                         ListVal(<<Relaxed, FitRelaxed>>), ListVal(<<Relaxed>>)},
     color_or_print |-> {StrVal(Red), NoneVal},
     length         |-> {StrVal(Mini)},
     style          |-> {StrVal(Boho)},
     Fit            |-> {StrVal(FitRelaxed)}]

InferUniverse ==
    { [available |-> FALSE, response |-> Response("raises", EmptyDict)],
      [available |-> TRUE, response |-> Response("raises", EmptyDict)],
      [available |-> TRUE, response |-> Response("malformed", EmptyDict)],
      [available |-> TRUE, response |-> Response("not_object", EmptyDict)] }
    \cup { [available |-> TRUE, response |-> Response("object", d)] :
           d \in Dicts(ResponseValues) }

InitInfer ==
    /\ NoMatcher
    /\ pc = "call"
    /\ \E oracle \in InferUniverse : args = [op |-> "infer_attributes", oracle |-> oracle]
    /\ ret = NoRet
    /\ NoSession

Infer ==
    /\ pc = "call"
    /\ args.op = "infer_attributes"
    /\ ret' = [op |-> "infer_attributes",
               validation |-> IF args.oracle.available /\ args.oracle.response.kind = "object"
                              THEN ValidateAttributes(args.oracle.response.attributes)
                              ELSE [raised |-> FALSE, validated |-> EmptyDict],
               result |-> InferAttributes(args.oracle)]
    /\ pc' = "done"
    /\ UNCHANGED <<kb_vars, session_vars, args>>

NextInfer == Infer

SpecInfer == InitInfer /\ [][NextInfer]_vars

(***************************************************************************)
(* Construction of the matcher on a directory (SpecLoad)                   *)
(***************************************************************************)
\* Most members of one mapping file.
MaxLoadKeys == 1

\* A file that json.load rejects, a file whose JSON is not an object, or a
\* file holding an object of vibe phrases.
LoadFileContents ==
    { [parsable |-> FALSE, object |-> FALSE, data |-> <<>>],
      [parsable |-> TRUE, object |-> FALSE, data |-> <<>>] }
    \cup { [parsable |-> TRUE, object |-> TRUE, data |-> d] :
           d \in FileData({Boho, Chic}, {[fit |-> StrVal(Relaxed)]}, MaxLoadKeys) }

\* A missing directory, or a directory of up to three files.
LoadDirectories ==
    { [exists |-> FALSE, files |-> <<>>] }
    \cup { [exists |-> TRUE,
            files  |-> [i \in 1..Len(cs) |->
                           [name |-> MappingNames[i], parsable |-> cs[i].parsable,
                            object |-> cs[i].object, data |-> cs[i].data]]] :
           cs \in SeqsUpTo(LoadFileContents, Len(MappingNames)) }

InitLoad ==
    /\ NoMatcher
    /\ pc = "new"
    /\ \E dir \in LoadDirectories : args = [op |-> "load", dir |-> dir]
    /\ ret = NoRet
    /\ NoSession

\* SimilarityMatcher(vibes_data_dir): the matcher is built, or the
\* constructor raises and there is no matcher.
Load ==
    /\ pc = "new"
    /\ args.op = "load"
    /\ LET mappings == LoadVibeMappings(args.dir)
       IN  IF PrepareRaises(mappings)
           THEN /\ ret' = [op |-> "load", raised |-> TRUE]
                /\ UNCHANGED kb_vars
           ELSE /\ ret' = [op |-> "load", raised |-> FALSE]
                /\ vibe_mappings' = mappings
                /\ all_vibe_keys' = AllVibeKeys(mappings)
                /\ key_to_mapping' = KeyToMapping(mappings)
                /\ tfidf_fitted' = TfidfFitted(AllVibeKeys(mappings), TRUE)
                /\ UNCHANGED nlp
    /\ pc' = "loaded"
    /\ UNCHANGED <<session_vars, args>>

NextLoad == Load

SpecLoad == InitLoad /\ [][NextLoad]_vars

(***************************************************************************)
(* Two matchers on one knowledge base (SpecThreshold)                      *)
(***************************************************************************)
\* Most members over all mapping files together.
MaxThresholdKeys == 2

\* Values of similarity_threshold, in percent.
ThresholdUniverse == {50, 80, 100}

\* Candidate phrases: vibe keys of the knowledge base and a phrase the
\* tiers have to score, in either order.
ThresholdPhrases ==
    {<<Boho>>, <<Relaxed>>, <<Relaxed, Boho>>, <<Boho, Chic>>}

InitThreshold ==
    /\ \E dir \in Directories({Boho, Chic}, BundleUniverse, MaxThresholdKeys) :
         \E nlp_on \in BOOLEAN : InitMatcher(dir, nlp_on, TRUE)
    /\ pc = "idle"
    /\ args = NoArgs
    /\ ret = NoRet
    /\ NoSession

\* The same candidates, with the same scores from the tiers, are matched by
\* a matcher built with the lower and by one built with the higher
\* threshold.
MatchAtThresholds ==
    /\ pc = "idle"
    /\ \E lower, higher \in ThresholdUniverse, phrases \in ThresholdPhrases :
         /\ lower <= higher
         /\ \E sc \in ScoreChoices(Candidates(phrases, EmptyDict), all_vibe_keys,
                                   nlp, tfidf_fitted) :
              /\ args' = [op |-> "find_best_matches", phrases |-> phrases,
                          lower |-> lower, higher |-> higher, sc |-> sc]
              /\ ret' = [op |-> "find_best_matches",
                         at_lower |-> FindBestMatchesAt(lower, phrases, EmptyDict,
                                                        all_vibe_keys, key_to_mapping,
                                                        nlp, tfidf_fitted, sc),
                         at_higher |-> FindBestMatchesAt(higher, phrases, EmptyDict,
                                                         all_vibe_keys, key_to_mapping,
                                                         nlp, tfidf_fitted, sc)]
    /\ pc' = "matched"
    /\ UNCHANGED <<kb_vars, session_vars>>

NextThreshold == MatchAtThresholds

SpecThreshold == InitThreshold /\ [][NextThreshold]_vars

(***************************************************************************)
(* The tiers of one matcher call (SpecTiers)                               *)
(***************************************************************************)
\* Most members over all mapping files together.
MaxTierKeys == 2

\* Scores a tier may report for a key, in percent: none, below the cutoff
\* of the lexical tier, above it, and higher still.
TierScoreUniverse == {0, 40, 60, 90}

InitTiers ==
    /\ \E dir \in Directories({Boho, Chic}, {[fit |-> StrVal(Relaxed)]}, MaxTierKeys) :
         \E nlp_on, fit_ok \in BOOLEAN : InitMatcher(dir, nlp_on, fit_ok)
    /\ pc = "idle"
    /\ args = NoArgs
    /\ ret = NoRet
    /\ NoSession

\* One call of _find_best_match_for_phrase; dense and tfidf are what
\* calculate_spacy_similarity and calculate_tfidf_similarity report for the
\* phrase, whether or not the call consults them.
ScorePhrase ==
    /\ pc = "idle"
    /\ \E phrase \in {Boho, Relaxed} :
         LET scored == ExactIndices(phrase, all_vibe_keys) = {}
             K == KeySet(all_vibe_keys)
         IN  \E dense \in TierScores(scored /\ nlp, K, TierScoreUniverse) :
             \E tfidf \in TierScores(scored /\ tfidf_fitted, K, TierScoreUniverse) :
               /\ args' = [op |-> "match", phrase |-> phrase, dense |-> dense,
                           tfidf |-> tfidf]
               /\ ret' = FindBestMatchForPhrase(phrase, all_vibe_keys, key_to_mapping,
                                                nlp, tfidf_fitted, dense, tfidf)
    /\ pc' = "matched"
    /\ UNCHANGED <<kb_vars, session_vars>>

NextTiers == ScorePhrase

SpecTiers == InitTiers /\ [][NextTiers]_vars

(***************************************************************************)
(* SpecTwoSessions: two browser sessions of the page                       *)
(***************************************************************************)
SessionIds == {"a", "b"}

\* st.session_state of the running script.
RunningState ==
    [pending_attributes |-> pending_attributes,
     missing_attributes |-> missing_attributes,
     conversation_active |-> conversation_active]

\* The session whose script is running.
Running == CHOOSE s \in SessionIds : s \notin DOMAIN other_sessions

\* A mutation of Rerun: the conversation state is one module-level object,
\* which the next session's script finds as the last one left it.
RerunOnSharedState(s) ==
    /\ pc = "page"
    /\ s \in DOMAIN other_sessions
    /\ other_sessions' = [x \in (DOMAIN other_sessions \ {s}) \cup {Running} |->
                             IF x = Running THEN RunningState ELSE other_sessions[x]]
    /\ args' = [op |-> "rerun"]
    /\ ret' = NoRet
    /\ UNCHANGED <<kb_vars, pc, pending_attributes, missing_attributes,
                   conversation_active>>

\* An event of session s reruns the script: st.session_state is now the
\* state of s, and the state of the session that ran before is kept.
Rerun(s) ==
    /\ pc = "page"
    /\ s \in DOMAIN other_sessions
    /\ other_sessions' = [x \in (DOMAIN other_sessions \ {s}) \cup {Running} |->
                             IF x = Running THEN RunningState ELSE other_sessions[x]]
    /\ pending_attributes' = other_sessions[s].pending_attributes
    /\ missing_attributes' = other_sessions[s].missing_attributes
    /\ conversation_active' = other_sessions[s].conversation_active
    /\ args' = [op |-> "rerun"]
    /\ ret' = NoRet
    /\ UNCHANGED <<kb_vars, pc>>

\* Two sessions open the page; each builds its own system from the same
\* directory and starts with an empty conversation.
InitTwoSessions ==
    /\ \E dir \in SessionDirectories : InitMatcher(dir, FALSE, TRUE)
    /\ pc = "page"
    /\ args = NoArgs
    /\ ret = NoRet
    /\ pending_attributes = EmptyDict
    /\ missing_attributes = <<>>
    /\ conversation_active = FALSE
    /\ other_sessions = [s \in {"b"} |-> NewSessionState]

SwitchSession == \E s \in SessionIds : Rerun(s)

\* What the extractor finds in the utterances of the two sessions: a
\* category, a size with a budget, or all three.
TwoSessionExtracted ==
    {e \in SessionExtracted :
        {k \in DOMAIN e : Truthy(e[k])} \in {{"category"}, {"size", "budget"},
                                             {"category", "size", "budget"}}}

SendInSession == ProcessUserInputOver(TwoSessionExtracted, EmptyDict)

FinalInSession == GetFinalRecommendationsOver(TwoSessionExtracted)

NextTwoSessions == SwitchSession \/ SendInSession \/ NewRequest \/ FinalInSession

SpecTwoSessions == InitTwoSessions /\ [][NextTwoSessions]_vars

(***************************************************************************)
(* SpecRefuse: a sequence of _merge_all_attributes calls on one system     *)
(***************************************************************************)
\* The argument tuples of the calls: one extraction, with or without a
\* rule-based size, an inferred size and a preferred budget.
RefuseInputs ==
    { [extracted |-> [size |-> StrVal(SizeS), budget |-> NoneVal],
       rule_based |-> r, gpt_inferred |-> g, user_prefs |-> u] :
      r \in {EmptyDict, [size |-> StrVal(SizeL)]},
      g \in {GptNone, GptSome([size |-> StrVal(SizeM), budget |-> NumVal(60)])},
      u \in {EmptyDict, [budget |-> NumVal(100)]} }

InitRefuse ==
    /\ NoMatcher
    /\ pc = "call"
    /\ args = NoArgs
    /\ ret = [op |-> "none", merged |-> EmptyDict, log |-> {}]
    /\ NoSession

\* A mutation of FuseAgain: merged is kept between calls, each call
\* writing over what the calls before left in it.
FuseAgainOnKeptDict ==
    /\ pc = "call"
    /\ \E i \in RefuseInputs :
         LET merged == Override(ret.merged,
                                MergeAllAttributes(i.extracted, i.rule_based,
                                                   i.gpt_inferred, i.user_prefs))
         IN  /\ args' = [op |-> "merge", passed |-> i, after |-> i]
             /\ ret' = [op |-> "merge", merged |-> merged,
                        log |-> ret.log \cup {[inputs |-> i, merged |-> merged]}]
    /\ UNCHANGED <<kb_vars, session_vars, pc>>

\* One more call: args holds the maps passed and the same maps as they are
\* after the call, ret.log every call so far with its result.
FuseAgain ==
    /\ pc = "call"
    /\ \E i \in RefuseInputs :
         LET merged == MergeAllAttributes(i.extracted, i.rule_based,
                                          i.gpt_inferred, i.user_prefs)
         IN  /\ args' = [op |-> "merge", passed |-> i, after |-> i]
             /\ ret' = [op |-> "merge", merged |-> merged,
                        log |-> ret.log \cup {[inputs |-> i, merged |-> merged]}]
    /\ UNCHANGED <<kb_vars, session_vars, pc>>

NextRefuse == FuseAgain

SpecRefuse == InitRefuse /\ [][NextRefuse]_vars

(***************************************************************************)
(* NLPAnalyzer.extract_key_phrases (SpecExtract)                           *)
(***************************************************************************)
\* Most words in an utterance.
MaxUtterance == 3

\* str.upper()
UpperChar(c) ==
    IF \E u \in DOMAIN UpperToLower : UpperToLower[u] = c
    THEN CHOOSE u \in DOMAIN UpperToLower : UpperToLower[u] = c
    ELSE c

Upper(s) == [i \in 1..Len(s) |-> UpperChar(s[i])]

\* The 'categories' and 'sizes' lists of _init_fashion_patterns, as written.
fashion_patterns ==
    [categories |-> {<<"d","r","e","s","s">>, <<"t","o","p">>, <<"t","o","p","s">>,
                    <<"p","a","n","t","s">>, <<"s","k","i","r","t">>},
     sizes |-> {<<"X","S">>, <<"S">>, <<"M">>, <<"L">>, <<"X","L">>, <<"X","X","L">>}]

size_mapping ==
    LET pairs == {<<<<"x","s">>, <<"X","S">>>>,
                 <<<<"e","x","t","r","a"," ","s","m","a","l","l">>, <<"X","S">>>>,
                 <<<<"s","i","z","e"," ","x","s">>, <<"X","S">>>>, <<<<"s">>, <<"S">>>>,
                 <<<<"s","m","a","l","l">>, <<"S">>>>,
                 <<<<"s","i","z","e"," ","s">>, <<"S">>>>, <<<<"m">>, <<"M">>>>,
                 <<<<"m","e","d","i","u","m">>, <<"M">>>>,
                 <<<<"s","i","z","e"," ","m">>, <<"M">>>>, <<<<"l">>, <<"L">>>>,
                 <<<<"l","a","r","g","e">>, <<"L">>>>,
                 <<<<"s","i","z","e"," ","l">>, <<"L">>>>, <<<<"x","l">>, <<"X","L">>>>,
                 <<<<"e","x","t","r","a"," ","l","a","r","g","e">>, <<"X","L">>>>,
                 <<<<"s","i","z","e"," ","x","l">>, <<"X","L">>>>,
                 <<<<"x","x","l">>, <<"X","X","L">>>>,
                 <<<<"e","x","t","r","a"," ","e","x","t","r","a"," ","l","a","r","g","e">>, <<"X","X","L">>>>,
                 <<<<"2","x","l">>, <<"X","X","L">>>>,
                 <<<<"s","i","z","e"," ","x","x","l">>, <<"X","X","L">>>>}
    IN  [t \in {p[1] : p \in pairs} |-> (CHOOSE p \in pairs : p[1] = t)[2]]

\* clean_text on a whitespace-separated utterance: text.lower().
CleanText(words) == [i \in 1..Len(words) |-> Lower(words[i])]

\* tokens: the lower-cased text of every token that is not a stop word, or
\* is one of the pattern words.  stops holds the positions the language
\* model flags as stop words.
Tokens(doc, stops) ==
    LET all_fashion_words == fashion_patterns.categories \cup fashion_patterns.sizes
        keep(i) == i \notin stops \/ Lower(doc[i]) \in all_fashion_words
    IN  SelectSeq([i \in 1..Len(doc) |-> [text |-> Lower(doc[i]), kept |-> keep(i)]],
                  LAMBDA t : t.kept)

\* `for token in tokens:` with the category and the size checks.
RECURSIVE TokenLoop(_, _)
TokenLoop(tokens, extracted) ==
    IF tokens = <<>> THEN extracted
    ELSE LET token == Head(tokens).text
             c == IF token \in fashion_patterns.categories /\ ~Truthy(extracted.category)
                  THEN [extracted EXCEPT !.category = StrVal(token)]
                  ELSE extracted
             s == IF token \in fashion_patterns.sizes /\ ~Truthy(c.size)
                  THEN [c EXCEPT !.size =
                          StrVal(IF token \in DOMAIN size_mapping
                                 THEN size_mapping[token] ELSE Upper(token))]
                  ELSE c
         IN  TokenLoop(Tail(tokens), s)

\* analyze_query: clean_text, then extract_key_phrases on the cleaned text.
ExtractKeyPhrases(words, stops) ==
    TokenLoop(Tokens(CleanText(words), stops), [category |-> NoneVal, size |-> NoneVal])

\* Words of an utterance.
UtteranceWords ==
    {<<"s","i","z","e">>, SizeM, <<"m">>, <<"x","l">>, DressCap, <<"a">>}

InitExtract ==
    /\ NoMatcher
    /\ pc = "idle"
    /\ args = NoArgs
    /\ ret = NoRet
    /\ NoSession

AnalyzeQuery ==
    /\ pc = "idle"
    /\ \E n \in 1..MaxUtterance :
         \E words \in [1..n -> UtteranceWords], stops \in SUBSET (1..n) :
            /\ args' = [op |-> "analyze_query", words |-> words, stops |-> stops]
            /\ ret' = [op |-> "analyze_query",
                       extracted |-> ExtractKeyPhrases(words, stops)]
    /\ pc' = "analyzed"
    /\ UNCHANGED <<kb_vars, session_vars>>

NextExtract == AnalyzeQuery

SpecExtract == InitExtract /\ [][NextExtract]_vars

(***************************************************************************)
(* Properties of fusion (SpecFuse)                                         *)
(***************************************************************************)
\* The four sources of the merge in priority order, highest first.
FusionSources ==
    <<args.user_prefs, args.rule_based,
      IF args.gpt_inferred.none THEN EmptyDict ELSE args.gpt_inferred.attrs,
      args.extracted>>

FusionKeys == UNION {DOMAIN FusionSources[i] : i \in 1..4}

\* C1: for every key, the merged map holds the value of the first source in
\* the order user preference, rule-based, inferred, extracted that has a
\* populated value for it, and lacks the key exactly when no source has one;
\* an empty value (None, "", [], 0) in a higher source changes nothing.
C1_FusionPriority ==
    (pc = "done" /\ ret.op = "merge") =>
        \A k \in FusionKeys \cup DOMAIN ret.merged :
            LET has == {i \in 1..4 : Has(FusionSources[i], k)}
            IN  IF has = {} THEN k \notin DOMAIN ret.merged
                ELSE /\ k \in DOMAIN ret.merged
                     /\ ret.merged[k] = FusionSources[Min(has)][k]

\* C1 witness: the user preference holds an empty size over populated sizes
\* of all three lower sources and the rule-based size is returned, while its
\* populated budget overrides the rule-based one.
C1_Witness ==
    /\ pc = "done" /\ ret.op = "merge"
    /\ "size" \in DOMAIN args.user_prefs /\ args.user_prefs["size"] = StrVal(<<>>)
    /\ Has(args.rule_based, "size") /\ Has(args.extracted, "size")
    /\ ~args.gpt_inferred.none /\ Has(args.gpt_inferred.attrs, "size")
    /\ ret.merged["size"] = StrVal(SizeL)
    /\ Has(args.rule_based, "budget") /\ Has(args.user_prefs, "budget")
    /\ ret.merged["budget"] = NumVal(100)

(***************************************************************************)
(* Properties of the completeness check (SpecCheck)                        *)
(***************************************************************************)
CriticalSet == {critical_attributes[i] : i \in 1..Len(critical_attributes)}

CriticalRank == [category |-> 1, size |-> 2, budget |-> 3]

\* C2: a critical attribute is listed exactly once when it is absent or
\* falsy and not at all when it is populated, and the listed critical
\* attributes come in the order category, size, budget.
C2_CriticalListed ==
    (pc = "done" /\ ret.op = "check") =>
        /\ \A a \in CriticalSet :
               Cardinality({i \in 1..Len(ret.missing) : ret.missing[i] = a})
                   = IF Has(args.attributes, a) THEN 0 ELSE 1
        /\ \A i, j \in 1..Len(ret.missing) :
               (i < j /\ ret.missing[i] \in CriticalSet /\ ret.missing[j] \in CriticalSet)
                   => CriticalRank[ret.missing[i]] < CriticalRank[ret.missing[j]]

\* C2 witness: category populated, size present but None, budget absent.
C2_Witness ==
    /\ pc = "done" /\ ret.op = "check"
    /\ Has(args.attributes, "category")
    /\ "size" \in DOMAIN args.attributes /\ args.attributes["size"] = NoneVal
    /\ "budget" \notin DOMAIN args.attributes
    /\ ret.missing = <<"size", "budget">>

\* C3: the marker is listed exactly when category, size and budget are all
\* populated and no context attribute is, and never next to a missing
\* critical attribute.
C3_MarkerOnlyWhenComplete ==
    (pc = "done" /\ ret.op = "check") =>
        LET marker == \E i \in 1..Len(ret.missing) : ret.missing[i] = ContextMarker
            complete == \A a \in CriticalSet : Has(args.attributes, a)
            context == \E a \in context_attributes : Has(args.attributes, a)
        IN  /\ marker <=> (complete /\ ~context)
            /\ marker => \A i \in 1..Len(ret.missing) : ret.missing[i] \notin CriticalSet

(***************************************************************************)
(* Properties of the matcher (SpecMatch)                                   *)
(***************************************************************************)
\* C6: whenever the phrase equals a loaded key K up to letter case, the
\* call returns score 1.0 with K's own attributes from the exact tier alone.
C6_ExactForEveryKey ==
    (pc = "matched" /\ args.op = "match") =>
        \A i \in 1..Len(all_vibe_keys) :
            Lower(args.phrase) = Lower(all_vibe_keys[i]) =>
                /\ ret.found
                /\ ret.similarity_score = ExactScore
                /\ ret.attributes = key_to_mapping[all_vibe_keys[i]].attributes
                /\ ret.tiers = {"exact"}

\* The tables that define key k, by position in load order.
DefiningTables(k) ==
    {t \in 1..Len(vibe_mappings) :
        \E i \in 1..Len(vibe_mappings[t].data) : vibe_mappings[t].data[i].key = k}

Max(S) == CHOOSE x \in S : \A y \in S : y <= x

\* The entry of key k in table t.
EntryOf(t, k) ==
    LET d == vibe_mappings[t].data
    IN  d[CHOOSE i \in 1..Len(d) : d[i].key = k].attributes

LastLoaded(k) ==
    [mapping_type |-> vibe_mappings[Max(DefiningTables(k))].name,
     attributes |-> EntryOf(Max(DefiningTables(k)), k)]

\* C7: every loaded key resolves to the table and attributes of the last
\* table in load order that defines it, and every match returned for a key
\* carries exactly those.
C7_LastLoadedWins ==
    /\ \A k \in KeySet(all_vibe_keys) : key_to_mapping[k] = LastLoaded(k)
    /\ (pc = "matched" /\ args.op = "match" /\ ret.found) =>
           /\ ret.mapping_type = LastLoaded(ret.vibe_key).mapping_type
           /\ ret.attributes = LastLoaded(ret.vibe_key).attributes

\* C7 witness: a key defined by all three tables, with other attributes in
\* the first than in the last, is matched and the last table's come back.
C7_Witness ==
    /\ pc = "matched" /\ args.op = "match" /\ ret.found
    /\ DefiningTables(ret.vibe_key) = {1, 2, 3}
    /\ EntryOf(1, ret.vibe_key) # EntryOf(3, ret.vibe_key)
    /\ all_vibe_keys[1] = ret.vibe_key
    /\ ret.attributes = EntryOf(3, ret.vibe_key)
    /\ ret.mapping_type = "occasion_mapping"

(***************************************************************************)
(* Properties of a turn (Spec)                                             *)
(***************************************************************************)
\* C4: a turn ends in success, with filter and renderer invoked, exactly
\* when nothing is missing; otherwise it ends without success and without
\* an exception, filter and renderer are not invoked, and the resolved set
\* is returned with the missing keys.
C4_ReadyIffComplete ==
    pc = "answered" =>
        LET r == ret.result
        IN  /\ (r.success /\ {"filter", "render"} \subseteq r.called)
                   <=> r.missing_attributes = <<>>
            /\ r.missing_attributes # <<>> =>
                   /\ ~r.success /\ ~r.raised
                   /\ r.called \cap {"filter", "render"} = {}
                   /\ \A i \in 1..Len(r.missing_attributes) :
                          r.missing_attributes[i] \in CriticalSet =>
                              ~Has(r.final_attributes, r.missing_attributes[i])

\* The question a missing key is given.
TemplateOf(attr) ==
    IF attr = ContextMarker THEN CompoundQuestion ELSE question_templates[attr]

\* C5: a turn that asks for information returns one question per missing
\* key, in the order of the missing keys, each the key's template (the
\* combined template for the marker), and its message is the first of them;
\* with budget alone missing the message is the budget template.
C5_QuestionPerMissingKey ==
    (pc = "answered" /\ ~ret.result.success /\ ~ret.result.raised) =>
        LET r == ret.result
        IN  /\ r.missing_attributes # <<>>
            /\ Len(r.suggested_questions) = Len(r.missing_attributes)
            /\ \A i \in 1..Len(r.missing_attributes) :
                   r.suggested_questions[i] = TemplateOf(r.missing_attributes[i])
            /\ r.message = r.suggested_questions[1]
            /\ r.missing_attributes = <<"budget">> =>
                   r.message = "What's your budget? You can say something like '$50', 'under $100', or '200 dollars'"

\* C5 witness: size and budget are missing; two questions come back in that
\* order and the size question is the message.
C5_Witness ==
    /\ pc = "answered" /\ ~ret.result.success /\ ~ret.result.raised
    /\ ret.result.missing_attributes = <<"size", "budget">>
    /\ ret.result.suggested_questions =
           <<question_templates["size"], question_templates["budget"]>>
    /\ ret.result.message = question_templates["size"]

\* The attributes resolved before the oracle's turn: what the extractor
\* found together with the rule-based map.
ResolvedSoFar ==
    {k \in DOMAIN args.extracted : Truthy(args.extracted[k])}
        \cup DOMAIN ret.result.rule_based_attributes

\* C8 as stated: the oracle is asked only when no match reached the
\* threshold or fewer than 3 distinct attributes are resolved so far,
\* extracted and rule-based together.
C8_OracleOnlyWhenFewResolved ==
    (pc = "answered" /\ "oracle" \in ret.result.called) =>
        \/ ~ret.result.has_high_confidence
        \/ Cardinality(ResolvedSoFar) < 3

\* C8 amended: the oracle is asked only when no match reached the threshold
\* or the rule-based map alone holds fewer than 3 attributes.
C8_OracleOnlyWhenFewRuleBased ==
    (pc = "answered" /\ "oracle" \in ret.result.called) =>
        \/ ~ret.result.has_high_confidence
        \/ Cardinality(DOMAIN ret.result.rule_based_attributes) < 3

\* C8 witness: an accepted match gave one attribute, the extractor found at
\* least three more, and the oracle is asked.
C8_Witness ==
    /\ pc = "answered" /\ "oracle" \in ret.result.called
    /\ ret.result.has_high_confidence
    /\ Cardinality(DOMAIN ret.result.rule_based_attributes) = 1
    /\ Cardinality(ResolvedSoFar) >= 4

\* C9: a budget that does not parse as a number is not in the resolved set,
\* and budget is then listed as missing.
C9_UnparsableBudgetDropped ==
    pc = "answered" =>
        LET r == ret.result
            candidates == {args.user_preferences, r.rule_based_attributes,
                           r.gpt_attributes.attrs, args.extracted}
        IN  /\ "budget" \in DOMAIN r.final_attributes =>
                   ParsesAsNumber(r.final_attributes["budget"])
            /\ (\A d \in candidates : Has(d, "budget") => ~ParsesAsNumber(d["budget"]))
                   => \E i \in 1..Len(r.missing_attributes) :
                          r.missing_attributes[i] = "budget"

\* C10: every turn ends in a clarification request or in a result of the
\* catalog stage; no exception leaves get_recommendations.
C10_NoRawError ==
    pc = "answered" =>
        /\ ~ret.result.raised
        /\ ret.display \in {"clarification", "recommendation"}

(***************************************************************************)
(* Properties of a session (SpecSession, SpecFollowUp)                     *)
(***************************************************************************)
\* Category, size and budget are populated, and so is one of occasion,
\* season, style, fit.
Complete(attributes) ==
    /\ \A a \in CriticalSet : Has(attributes, a)
    /\ \E a \in context_attributes : Has(attributes, a)

C13_PreferenceWins ==
    (ret.op = "process_user_input" /\ ~ret.result.raised) =>
        /\ ~ret.result.success =>
               \A k \in DOMAIN args.current :
                   Truthy(args.current[k]) => k \in DOMAIN pending_attributes
        /\ \A k \in DOMAIN args.user_prefs :
               Truthy(args.user_prefs[k]) =>
                   /\ ret.result.final_attributes[k] = args.user_prefs[k]
                   /\ ~ret.result.success => pending_attributes[k] = args.user_prefs[k]

(***************************************************************************)
(* Properties of the oracle (SpecInfer)                                    *)
(***************************************************************************)
\* The category a response names, when its category is a string.
ActiveCategory(attributes) ==
    IF "category" \in DOMAIN attributes /\ attributes["category"].kind = "str"
    THEN Lower(attributes["category"].s) ELSE <<>>

AllowedList(attributes) ==
    IF ActiveCategory(attributes) \in DOMAIN category_attributes
    THEN category_attributes[ActiveCategory(attributes)] ELSE {}

\* The entry the claim keeps for a key: absent when the key is not allowed or
\* its value is not in the attribute's table.
ClaimedEntry(attributes, attr) ==
    LET a == AttrLower(attr)
        value == attributes[attr]
    IN  IF ~(a = "category" \/ a \in AllowedList(attributes)) THEN <<>>
        ELSE IF a \notin DOMAIN valid_values THEN <<value>>
        ELSE IF value.kind = "list"
             THEN LET listed == SelectSeq(value.items, LAMBDA i : i \in valid_values[a])
                  IN  IF listed = <<>> THEN <<>> ELSE <<ListVal(listed)>>
             ELSE IF value.kind = "str" /\ value.s \in valid_values[a] THEN <<value>>
             ELSE <<>>

\* C14: validation returns exactly the entries of the response whose key is
\* allowed for the active category (or is the category) and whose value is
\* in the attribute's valid-values table when it has one; a list keeps its
\* listed items and is dropped when none remain; an attribute without a
\* table keeps its value; nothing else is returned.
C14_ValidationKeepsListed ==
    (ret.op = "infer_attributes" /\ args.oracle.available
        /\ args.oracle.response.kind = "object") =>
      LET attributes == args.oracle.response.attributes
          validated == ret.validation.validated
      IN  /\ ~ret.validation.raised
          /\ \A attr \in DOMAIN attributes :
               IF ClaimedEntry(attributes, attr) = <<>> THEN attr \notin DOMAIN validated
               ELSE attr \in DOMAIN validated
                    /\ validated[attr] = ClaimedEntry(attributes, attr)[1]
          /\ DOMAIN validated \subseteq DOMAIN attributes

\* The oracle gave no response to validate: it has no key, its call raised
\* or timed out, or the content was not a JSON object.
OracleFailed(oracle) == ~oracle.available \/ oracle.response.kind # "object"

UsableKeys(dir) ==
    IF ~dir.exists THEN {}
    ELSE UNION { {dir.files[i].data[j].key : j \in 1..Len(dir.files[i].data)} :
                 i \in {x \in 1..Len(dir.files) :
                           dir.files[x].parsable /\ dir.files[x].object} }

\* C16: loading never aborts: a missing directory gives an empty knowledge
\* base, and a file that is unparsable or does not hold an object of vibe
\* phrases is skipped while the keys of every other file are matched
\* exactly by the matcher.
C16_LoadNeverAborts ==
    (pc = "loaded") =>
      /\ ~ret.raised
      /\ ~args.dir.exists => vibe_mappings = <<>> /\ all_vibe_keys = <<>>
      /\ \A k \in UsableKeys(args.dir) :
           /\ k \in KeySet(all_vibe_keys)
           /\ k \in DOMAIN key_to_mapping
           /\ FindBestMatchForPhrase(k, all_vibe_keys, key_to_mapping, nlp, tfidf_fitted,
                                     [x \in KeySet(all_vibe_keys) |-> 0],
                                     [x \in KeySet(all_vibe_keys) |-> 0]).vibe_key = k

(***************************************************************************)
(* Properties of the empty knowledge base (Spec)                           *)
(***************************************************************************)
\* The scores of the tiers over no keys.
NoScores == [k \in {} |-> 0]

\* C17: with no mapping loaded (the directory is missing or holds no mapping
\* file) the matcher answers no match to every phrase, and the turn's
\* rule-based map is empty with no high-confidence match.
C17_EmptyKnowledgeBaseMatchesNothing ==
    (vibe_mappings = <<>>) =>
      /\ \A phrase \in PhraseUniverse :
           \A nlp_on, fitted \in BOOLEAN :
             ~FindBestMatchForPhrase(phrase, all_vibe_keys, key_to_mapping, nlp_on,
                                     fitted, NoScores, NoScores).found
      /\ pc = "answered" =>
           /\ ret.result.rule_based_attributes = EmptyDict
           /\ ~ret.result.has_high_confidence

\* A turn on an empty knowledge base whose query named an occasion, a
\* candidate for the matcher.
C17_Witness ==
    /\ pc = "answered"
    /\ vibe_mappings = <<>>
    /\ Has(args.extracted, "occasion")
    /\ ret.result.rule_based_attributes = EmptyDict

(***************************************************************************)
(* Properties of the threshold (SpecThreshold)                             *)
(***************************************************************************)
\* C18: on one knowledge base and one set of candidate phrases, the
\* attribute keys accepted at a higher similarity_threshold are among the
\* keys accepted at a lower one.
C18_HigherThresholdAcceptsFewer ==
    (pc = "matched") =>
      DOMAIN ret.at_higher.matched_attributes \subseteq DOMAIN ret.at_lower.matched_attributes

\* The higher threshold accepted some keys and rejected others that the
\* lower threshold accepted.
C18_Witness ==
    /\ pc = "matched"
    /\ args.lower < args.higher
    /\ DOMAIN ret.at_higher.matched_attributes # {}
    /\ DOMAIN ret.at_higher.matched_attributes # DOMAIN ret.at_lower.matched_attributes

(***************************************************************************)
(* Properties of the tiers (SpecTiers)                                     *)
(***************************************************************************)
\* The largest score of a tier over the keys, 0 over no keys.
TierMax(scores) == Max({0} \cup {scores[k] : k \in DOMAIN scores})

\* The returned score is s; no match returned stands for score 0.
Returns(s) == IF ret.found THEN ret.similarity_score = s ELSE s = 0

NoExactMatch ==
    pc = "matched" /\ args.op = "match" /\ ExactIndices(args.phrase, all_vibe_keys) = {}

\* C19 as stated: without an exact match the returned score is the larger
\* of the dense tier's maximum and the lexical tier's top score, whatever
\* the two scores are.
C19_ScoreIsMaxOfTiers ==
    NoExactMatch => Returns(Max({TierMax(args.dense), TierMax(args.tfidf)}))

\* C19 amended: without an exact match the returned score is the dense
\* tier's maximum when that is 0.5 or more, and otherwise the larger of
\* the dense tier's maximum and the lexical tier's top score.
C19_ScoreIsDenseOrMaxBelowCutoff ==
    NoExactMatch =>
      IF TierMax(args.dense) >= TfidfCutoff THEN Returns(TierMax(args.dense))
      ELSE Returns(Max({TierMax(args.dense), TierMax(args.tfidf)}))

\* The dense maximum is 0.5 or more, the lexical top score is higher, and
\* the dense score is returned.
C19_Witness ==
    /\ NoExactMatch
    /\ TierMax(args.dense) >= TfidfCutoff
    /\ TierMax(args.tfidf) > TierMax(args.dense)
    /\ ret.found /\ ret.similarity_score = TierMax(args.dense)

(***************************************************************************)
(* Properties of the values kept (SpecSession)                             *)
(***************************************************************************)
\* C20: every key of a resolved attribute set has a non-empty value, and
\* after any sequence of turns, resets and final-recommendation requests
\* every key of the retained pending attributes has a non-empty value.
C20_NoEmptyValues ==
    /\ \A k \in DOMAIN pending_attributes : Truthy(pending_attributes[k])
    /\ ret.op \in {"process_user_input", "get_final_recommendations"} =>
         \A k \in DOMAIN ret.result.final_attributes :
             Truthy(ret.result.final_attributes[k])

\* A follow-up turn whose input left some extractor keys empty ended in a
\* clarification request with attributes retained.
C20_Witness ==
    /\ ret.op = "process_user_input" /\ ~ret.result.raised /\ ~ret.result.success
    /\ \E k \in DOMAIN args.current : ~Truthy(args.current[k])
    /\ \E k \in DOMAIN args.current : Truthy(args.current[k])
    /\ conversation_active
    /\ pending_attributes # EmptyDict
    /\ DOMAIN ret.result.final_attributes # {}

StateOf(s) == IF s \in DOMAIN other_sessions THEN other_sessions[s] ELSE RunningState

StateAfter(s) ==
    IF s \in DOMAIN other_sessions' THEN other_sessions'[s]
    ELSE [pending_attributes |-> pending_attributes',
          missing_attributes |-> missing_attributes',
          conversation_active |-> conversation_active']

FirstBest(scores) ==
    all_vibe_keys[Min({i \in 1..Len(all_vibe_keys) :
                          scores[all_vibe_keys[i]] = TierMax(scores)})]

\* The call returned the key k with the score s.
ReturnsMatch(k, s) == ret.found /\ ret.vibe_key = k /\ ret.similarity_score = s

\* C24: without an exact match the lexical tier is consulted only if the
\* dense tier's maximum is below 0.5, and its top key replaces the dense
\* tier's best match only if its top score is strictly greater than the
\* dense maximum; with a dense maximum of 0.5 or more the dense tier's best
\* match is returned.
C24_LexicalOnlyBelowCutoff ==
    NoExactMatch =>
      LET dense_max == TierMax(args.dense)
          top_score == TierMax(args.tfidf)
      IN  /\ "lexical" \in ret.tiers <=> dense_max < TfidfCutoff
          /\ dense_max >= TfidfCutoff => ReturnsMatch(FirstBest(args.dense), dense_max)
          /\ (dense_max < TfidfCutoff /\ top_score > dense_max) =>
               ReturnsMatch(FirstBest(args.tfidf), top_score)
          /\ (dense_max < TfidfCutoff /\ top_score <= dense_max) =>
               IF dense_max > 0 THEN ReturnsMatch(FirstBest(args.dense), dense_max)
               ELSE ~ret.found

\* The dense tier found a key below 0.5 and the lexical tier's top key,
\* another one, scored strictly higher and was returned.
C24_Witness ==
    /\ NoExactMatch
    /\ TierMax(args.dense) > 0
    /\ TierMax(args.dense) < TfidfCutoff
    /\ TierMax(args.tfidf) > TierMax(args.dense)
    /\ FirstBest(args.tfidf) # FirstBest(args.dense)
    /\ ReturnsMatch(FirstBest(args.tfidf), TierMax(args.tfidf))

\* C25: with the embedding backend unavailable the dense tier scores
\* nothing and the lexical tier always runs: a phrase without an exact
\* match gets the lexical tier's top key and score when that score is
\* above 0, and no match otherwise.
C25_LexicalAloneWithoutBackend ==
    (NoExactMatch /\ ~nlp) =>
      /\ ret.tiers = {"lexical"}
      /\ IF TierMax(args.tfidf) > 0
         THEN ReturnsMatch(FirstBest(args.tfidf), TierMax(args.tfidf))
         ELSE ~ret.found

\* Without the backend, two keys tie on the lexical top score, which is
\* 0.5 or more, and the first of them is returned.
C25_Witness ==
    /\ NoExactMatch
    /\ ~nlp
    /\ TierMax(args.tfidf) >= TfidfCutoff
    /\ \A k \in DOMAIN args.tfidf : args.tfidf[k] = TierMax(args.tfidf)
    /\ Len(all_vibe_keys) > 1
    /\ all_vibe_keys[1] # all_vibe_keys[Len(all_vibe_keys)]
    /\ ReturnsMatch(all_vibe_keys[1], TierMax(args.tfidf))

\* The match of the i-th candidate of the call, as the matcher found it.
MatchOf(i) ==
    FindBestMatchForPhrase(args.phrases[i], all_vibe_keys, key_to_mapping, nlp,
                           tfidf_fitted, args.sc[i].dense, args.sc[i].tfidf)

\* The candidates whose match reached the threshold and supplies key k.
Suppliers(k, threshold) ==
    {i \in 1..Len(args.phrases) :
        /\ MatchOf(i).found
        /\ MatchOf(i).similarity_score >= threshold
        /\ k \in DOMAIN MatchOf(i).attributes}

\* The earliest of the suppliers with the highest score.
BestSupplier(k, threshold) ==
    Min({i \in Suppliers(k, threshold) :
            \A j \in Suppliers(k, threshold) :
                MatchOf(j).similarity_score <= MatchOf(i).similarity_score})

\* C26: every attribute of the rule-based map comes from a match scoring at
\* or above the threshold; of several accepted matches supplying a key the
\* one with the highest score, the earliest on equal scores, gives the
\* value, and the confidence recorded is that match's score.
C26_BestAcceptedMatchSupplies ==
    (pc = "matched" /\ args.op = "find_best_matches") =>
      /\ DOMAIN ret.at_lower.confidence_scores = DOMAIN ret.at_lower.matched_attributes
      /\ \A k \in DOMAIN ret.at_lower.matched_attributes :
           /\ Suppliers(k, args.lower) # {}
           /\ ret.at_lower.matched_attributes[k] =
                  MatchOf(BestSupplier(k, args.lower)).attributes[k]
           /\ ret.at_lower.confidence_scores[k] =
                  MatchOf(BestSupplier(k, args.lower)).similarity_score

\* Two accepted matches of equal score supplied different values of a key,
\* and the earlier one's is kept.
C26_Witness ==
    /\ pc = "matched" /\ args.op = "find_best_matches"
    /\ \E k \in DOMAIN ret.at_lower.matched_attributes :
         \E i, j \in Suppliers(k, args.lower) :
            /\ i < j
            /\ MatchOf(i).similarity_score = MatchOf(j).similarity_score
            /\ MatchOf(i).attributes[k] # MatchOf(j).attributes[k]
            /\ ret.at_lower.matched_attributes[k] = MatchOf(i).attributes[k]

(***************************************************************************)
(* Properties of the extractor (SpecExtract)                               *)
(***************************************************************************)
\* The positions of the utterance holding a size token, in any letter case.
SizePositions ==
    {i \in 1..Len(args.words) :
        Lower(args.words[i]) \in {Lower(s) : s \in fashion_patterns.sizes}}

\* C27: when the utterance contains a size token from XS, S, M, L, XL, XXL,
\* in any letter case, the extractor returns a size, in the upper-case
\* standard form of a token of the utterance.
C27_SizeExtracted ==
    (pc = "analyzed" /\ args.op = "analyze_query" /\ SizePositions # {}) =>
      /\ Truthy(ret.extracted.size)
      /\ \E i \in SizePositions : ret.extracted.size = StrVal(Upper(args.words[i]))

(***************************************************************************)
(* Properties of the conversation flag (SpecSession)                       *)
(***************************************************************************)
\* C28: in every session state the conversation is inactive only if the
\* pending attributes and the stored missing keys are both empty, and
\* active only if the stored missing keys are not empty, whatever turns,
\* failed turns, resets and final-recommendation requests came before.
C28_ActiveFlagMatchesStoredState ==
    /\ ~conversation_active =>
          (pending_attributes = EmptyDict /\ missing_attributes = <<>>)
    /\ conversation_active => missing_attributes # <<>>

\* A turn failed with an exception in an active conversation that keeps
\* attributes and missing keys.
C28_Witness ==
    /\ ret.op \in {"process_user_input", "get_final_recommendations"}
    /\ ret.result.raised
    /\ conversation_active
    /\ pending_attributes # EmptyDict
    /\ missing_attributes # <<>>

(***************************************************************************)
(* Properties of consecutive turns (SpecSession)                           *)
(***************************************************************************)
\* The step is a turn of an active conversation that again needs information.
NeedsInfoAgain ==
    /\ conversation_active
    /\ ret'.op = "process_user_input"
    /\ ~ret'.result.raised
    /\ ~ret'.result.success

\* C29: across consecutive NEEDS_INFO turns every key retained before the
\* turn is retained after it, and the turn's resolved set holds every
\* retained key with its retained value.
C29_RetainedKeysNeverShrink ==
    [][NeedsInfoAgain =>
         /\ DOMAIN pending_attributes \subseteq DOMAIN pending_attributes'
         /\ \A k \in DOMAIN pending_attributes :
              /\ k \in DOMAIN ret'.result.final_attributes
              /\ ret'.result.final_attributes[k] = pending_attributes[k]]_vars

\* A second NEEDS_INFO turn has resolved a retained key to its retained
\* value while the utterance of the turn gave another value for it, which
\* is the one kept for the next turn.
C29_Witness ==
    /\ conversation_active
    /\ ret.op = "process_user_input"
    /\ ~ret.result.raised /\ ~ret.result.success
    /\ \E k \in DOMAIN ret.result.final_attributes \cap DOMAIN args.current :
         /\ Truthy(args.current[k])
         /\ args.current[k] # ret.result.final_attributes[k]
         /\ pending_attributes[k] = args.current[k]

(***************************************************************************)
(* Properties of the oracle test (Spec)                                    *)
(***************************************************************************)
\* C30: has_high_confidence_matches is true exactly when the rule-based
\* attribute map is not empty, so the oracle is skipped if and only if
\* similarity matching accepted at least 3 distinct attributes.
C30_OracleSkippedIffThreeRuleBased ==
    pc = "answered" =>
      /\ ret.result.has_high_confidence <=>
             (ret.result.rule_based_attributes # EmptyDict)
      /\ ("oracle" \notin ret.result.called) <=>
             (Cardinality(DOMAIN ret.result.rule_based_attributes) >= 3)

\* Accepted matches gave three attributes and the oracle was skipped.
C30_Witness ==
    /\ pc = "answered"
    /\ ret.result.has_high_confidence
    /\ Cardinality(DOMAIN ret.result.rule_based_attributes) >= 3
    /\ "oracle" \notin ret.result.called

=============================================================================
